---- MODULE Spec2Model ----
(***************************************************************************)
(* Model of the report parser of the Contentstack Health Check Bot         *)
(* (utils/reportParser.ts, whose text is carried in src/README.md):        *)
(* text normalisation, section chunking and metrics extraction.            *)
(*                                                                         *)
(* A JavaScript string is a sequence of one-character strings.  Characters *)
(* outside ASCII are written as tokens: "<NBSP>" is U+00A0 and "<BULLET>"  *)
(* is U+2022.                                                              *)
(***************************************************************************)
EXTENDS Integers, Sequences, FiniteSets, TLC

VARIABLES
    pc,        \* position of the running specification
    nIn,       \* normalizeText: the raw input text
    nOut,      \* normalizeText: normalizeText(nIn)
    nOut2,     \* normalizeText: normalizeText(nOut)
    cText,     \* createHealthCheckChunks: the normalized text
    cMax,      \* createHealthCheckChunks: maxChunkSize
    cOverlap,  \* createHealthCheckChunks: overlap
    cChunks,   \* createHealthCheckChunks: the chunks returned
    cFallback, \* createHealthCheckChunks: the fallback chunk was pushed
    sText,     \* splitLargeSection: the segment text
    sMax,      \* splitLargeSection: maxSize
    sOverlap,  \* splitLargeSection: overlap
    sStart,    \* splitLargeSection: the loop variable start
    sChunks,   \* splitLargeSection: the chunks pushed so far
    mMatches,  \* extractHealthCheckMetrics: the matches on the first page
    mCounts,   \* extractHealthCheckMetrics: the section and item counts
    metrics,   \* extractHealthCheckMetrics: the metrics object
    iText,     \* identifyHealthCheckSection: the snippet
    iSection,  \* identifyHealthCheckSection: the label returned
    reports,   \* ReportStore: the map of stored reports, in insertion order
    sReturn,   \* ReportStore: the value returned by the last call
    sDeletes,  \* ReportStore: the number of delete calls made
    uRequest,  \* POST upload-report: the request being handled
    uResponse, \* POST upload-report: the response returned
    gSkipRetry, \* GeminiClient.generate: the skipRetry argument
    gAttempt,   \* generate: the loop variable attempt
    gLastError, \* generate: lastError, null or the message of the Error
    gRequests,  \* generate: the number of fetch calls made
    gWait,      \* generate: the delay of the sleep awaited
    gResult,    \* generate: what the returned promise settled to
    chRequest,   \* chat POST: the body of the request
    chCustom,    \* chat POST: customResult.qa
    chConsulted, \* chat POST: the sources consulted so far, in order
    chReply,     \* chat POST: the GeminiResponse for the report prompt
    chResponse,  \* chat POST: the response returned
    threadFiles,    \* chat history: the thread files of the data directory, in order of creation
    threadsCreated, \* chat history: the number of threads created so far
    threadReturn,   \* chat history: what the last call returned
    pText,   \* parseGeminiSummary: the text
    pCounts, \* parseGeminiSummary: the three counts passed
    pParsed, \* parseGeminiSummary: the lists returned
    pageSessionId,  \* the page: useState sessionId
    pageFilename,   \* the page: useState filename
    summaryData,    \* the page: useState summaryData
    summaryLoading, \* the page: useState summaryLoading
    summaryError,   \* the page: useState summaryError
    uploadError,    \* the page: useState uploadError
    pageMetrics,    \* the page: useState metrics
    summarizing,    \* the page: the sessions whose /api/summarize fetch is in flight
    uploads         \* the page: the number of uploads that succeeded

normVars == <<nIn, nOut, nOut2>>
chunkVars == <<cText, cMax, cOverlap, cChunks, cFallback>>
splitVars == <<sText, sMax, sOverlap, sStart, sChunks>>
metricVars == <<mMatches, mCounts, metrics>>
identVars == <<iText, iSection>>
storeVars == <<reports, sReturn, sDeletes>>
uploadVars == <<uRequest, uResponse>>
genVars == <<gSkipRetry, gAttempt, gLastError, gRequests, gWait, gResult>>
chatVars == <<chRequest, chCustom, chConsulted, chReply, chResponse>>
threadVars == <<threadFiles, threadsCreated, threadReturn>>
summaryVars == <<pText, pCounts, pParsed>>
pageVars == <<pageSessionId, pageFilename, summaryData, summaryLoading, summaryError, uploadError, pageMetrics, summarizing, uploads>>
vars == <<pc, normVars, chunkVars, splitVars, metricVars, identVars, storeVars, uploadVars, genVars, chatVars, threadVars, summaryVars, pageVars>>

----------------------------------------------------------------------------
(* Bounds *)

MaxRawLen == 6
MaxPieces == 3
MaxSegLen == 5
MaxDigits == 3
MaxSections == 2

----------------------------------------------------------------------------
(* Strings *)

Min(a, b) == IF a < b THEN a ELSE b
Max(a, b) == IF a > b THEN a ELSE b

\* The characters matched by \s in a JavaScript regular expression that the
\* model's alphabets can contain (String.prototype.trim strips the same set).
WhiteSpace == {" ", "\t", "\n", "\r", "<NBSP>"}

\* s.substring(from, to) with 0-based JavaScript indices, from <= to.
Substring(s, from, to) ==
    LET f == Max(0, Min(from, Len(s)))
        t == Max(0, Min(to, Len(s)))
    IN  SubSeq(s, Min(f, t) + 1, Max(f, t))

\* All sequences over alphabet of length 0..n.
SeqsUpTo(alphabet, n) == UNION {[1..k -> alphabet] : k \in 0..n}

\* s.trim()
RECURSIVE TrimLeft(_)
TrimLeft(s) ==
    IF s = <<>> THEN <<>>
    ELSE IF Head(s) \in WhiteSpace THEN TrimLeft(Tail(s)) ELSE s

RECURSIVE TrimRight(_)
TrimRight(s) ==
    IF s = <<>> THEN <<>>
    ELSE IF s[Len(s)] \in WhiteSpace THEN TrimRight(SubSeq(s, 1, Len(s) - 1))
    ELSE s

Trim(s) == TrimRight(TrimLeft(s))

\* Length of the maximal run of characters of class cls starting at s[i].
RECURSIVE RunLen(_, _, _)
RunLen(s, i, cls) ==
    IF i > Len(s) \/ s[i] \notin cls THEN 0 ELSE 1 + RunLen(s, i + 1, cls)

\* Length of the maximal run of characters outside class cls starting at s[i].
RECURSIVE RunLenNot(_, _, _)
RunLenNot(s, i, cls) ==
    IF i > Len(s) \/ s[i] \in cls THEN 0 ELSE 1 + RunLenNot(s, i + 1, cls)

\* s.split('\n'): the lines of s from position i on, at least one.
RECURSIVE SplitLinesFrom(_, _)
SplitLinesFrom(s, i) ==
    LET n == RunLenNot(s, i, {"\n"})
    IN  IF i + n > Len(s) THEN <<SubSeq(s, i, Len(s))>>
        ELSE <<SubSeq(s, i, i + n - 1)>> \o SplitLinesFrom(s, i + n + 1)

SplitLines(s) == SplitLinesFrom(s, 1)

\* The concatenation of parts[lo..hi].
RECURSIVE ConcatRange(_, _, _)
ConcatRange(parts, lo, hi) ==
    IF lo > hi THEN <<>>
    ELSE IF lo = hi THEN parts[lo]
    ELSE LET mid == (lo + hi) \div 2
         IN  ConcatRange(parts, lo, mid) \o ConcatRange(parts, mid + 1, hi)

Concat(parts) == ConcatRange(parts, 1, Len(parts))

SetMax(S) == CHOOSE x \in S : \A y \in S : y <= x
SetMin(S) == CHOOSE x \in S : \A y \in S : x <= y

\* The elements of a finite set of integers in increasing order.
RECURSIVE Sorted(_)
Sorted(S) ==
    IF S = {} THEN <<>> ELSE LET m == SetMin(S) IN <<m>> \o Sorted(S \ {m})

\* lines.join('\n')
RECURSIVE JoinLines(_)
JoinLines(lines) ==
    IF lines = <<>> THEN <<>>
    ELSE IF Len(lines) = 1 THEN lines[1]
    ELSE lines[1] \o <<"\n">> \o JoinLines(Tail(lines))

----------------------------------------------------------------------------
(* normalizeText *)

\* The characters of the first replace's class that the alphabets contain.
UnicodeSpaces == {"<NBSP>"}

\* .replace(/[  ...　]/g, ' ')
ReplaceUnicodeSpaces(s) ==
    [i \in 1..Len(s) |-> IF s[i] \in UnicodeSpaces THEN " " ELSE s[i]]

\* .replace(/\r\n/g, '\n'): a \r that a \n follows is dropped.
ReplaceCRLF(s) ==
    Concat([i \in 1..Len(s) |->
               IF s[i] = "\r" /\ i < Len(s) /\ s[i + 1] = "\n"
               THEN <<>> ELSE <<s[i]>>])

\* .replace(/\r/g, '\n')
ReplaceCR(s) == [i \in 1..Len(s) |-> IF s[i] = "\r" THEN "\n" ELSE s[i]]

\* .replace(/\n{3,}/g, '\n\n'): of every maximal run of three or more
\* newlines the first two are kept.
CollapseNewlines(s) ==
    Concat([i \in 1..Len(s) |->
               IF i >= 3 /\ s[i] = "\n" /\ s[i - 1] = "\n" /\ s[i - 2] = "\n"
               THEN <<>> ELSE <<s[i]>>])

\* .replace(/[^\S\n]+/g, ' '): every maximal run of white space other than
\* newlines becomes one space.
CollapseBlanks(s) ==
    LET Blank == WhiteSpace \ {"\n"}
    IN  Concat([i \in 1..Len(s) |->
                   IF s[i] \notin Blank THEN <<s[i]>>
                   ELSE IF i > 1 /\ s[i - 1] \in Blank THEN <<>>
                   ELSE <<" ">>])

\* .split('\n').map(line => line.trim()).join('\n')
TrimEachLine(s) ==
    LET lines == SplitLines(s)
    IN  JoinLines([k \in 1..Len(lines) |-> Trim(lines[k])])

normalizeText(text) ==
    IF text = <<>> THEN <<>>
    ELSE Trim(TrimEachLine(CollapseBlanks(CollapseNewlines(
             ReplaceCR(ReplaceCRLF(ReplaceUnicodeSpaces(text)))))))

----------------------------------------------------------------------------
(* Regular expressions.  A pattern is a sequence of elements; MatchFrom    *)
(* gives every position at which a match starting at position i can end,   *)
(* so a pattern matches at i exactly when that set is not empty.           *)

\* The text of a TLA+ string as a sequence of characters.
Chars(str) == [i \in 1..Len(str) |-> SubSeq(str, i, i)]

UpperToLower ==
    [A |-> "a", B |-> "b", C |-> "c", D |-> "d", E |-> "e", F |-> "f",
     G |-> "g", H |-> "h", I |-> "i", J |-> "j", K |-> "k", L |-> "l",
     M |-> "m", N |-> "n", O |-> "o", P |-> "p", Q |-> "q", R |-> "r",
     S |-> "s", T |-> "t", U |-> "u", V |-> "v", W |-> "w", X |-> "x",
     Y |-> "y", Z |-> "z"]

UpperLetters == DOMAIN UpperToLower
LowerLetters == {UpperToLower[c] : c \in UpperLetters}
DigitChars == {"0", "1", "2", "3", "4", "5", "6", "7", "8", "9"}

ToLowerChar(c) == IF c \in UpperLetters THEN UpperToLower[c] ELSE c

\* s.toLowerCase()
ToLowerCase(s) == [i \in 1..Len(s) |-> ToLowerChar(s[i])]

Lit(chars) == [t |-> "lit", v |-> chars]        \* the literal characters chars
L(str) == Lit(Chars(str))                       \* the literal text str
WsStar == [t |-> "ws*", v |-> <<>>]             \* \s*
WsPlus == [t |-> "ws+", v |-> <<>>]             \* \s+
Digits == [t |-> "d+", v |-> <<>>]              \* \d+
AnyStar == [t |-> "any*", v |-> <<>>]           \* .*
OptSeq(pat) == [t |-> "opt", v |-> pat]         \* (pat)?
Opt(str) == OptSeq(<<L(str)>>)                  \* x?
Alt(lits) == [t |-> "alt", v |-> lits]          \* (a|b)
Cls(set) == [t |-> "class", v |-> set]          \* [..], one character

\* The literal lit stands at position i of s; ci is the i flag (the literal
\* is then written in lower case).
LitAt(s, i, lit, ci) ==
    /\ i + Len(lit) - 1 <= Len(s)
    /\ \A k \in 1..Len(lit) :
           (IF ci THEN ToLowerChar(s[i + k - 1]) ELSE s[i + k - 1]) = lit[k]

RECURSIVE MatchFrom(_, _, _, _, _)
MatchFrom(s, i, pat, k, ci) ==
    IF k > Len(pat) THEN {i}
    ELSE LET e == pat[k]
             rest(j) == MatchFrom(s, j, pat, k + 1, ci)
         IN  CASE e.t = "lit" ->
                    IF LitAt(s, i, e.v, ci) THEN rest(i + Len(e.v)) ELSE {}
               [] e.t = "ws*" ->
                    UNION {rest(j) : j \in i..(i + RunLen(s, i, WhiteSpace))}
               [] e.t = "ws+" ->
                    UNION {rest(j) : j \in (i + 1)..(i + RunLen(s, i, WhiteSpace))}
               [] e.t = "d+" ->
                    UNION {rest(j) : j \in (i + 1)..(i + RunLen(s, i, DigitChars))}
               [] e.t = "any*" ->
                    UNION {rest(j) : j \in i..(i + RunLenNot(s, i, {"\n", "\r"}))}
               [] e.t = "opt" ->
                    rest(i) \cup UNION {rest(j) : j \in MatchFrom(s, i, e.v, 1, ci)}
               [] e.t = "alt" ->
                    UNION {IF LitAt(s, i, e.v[a], ci)
                           THEN rest(i + Len(e.v[a])) ELSE {} : a \in 1..Len(e.v)}
               [] e.t = "class" ->
                    IF i <= Len(s) /\ s[i] \in e.v THEN rest(i + 1) ELSE {}

MatchesAt(s, i, pat, ci) == MatchFrom(s, i, pat, 1, ci) # {}

\* pattern.test(s).  A pattern that begins with a literal can only match
\* where the literal's first character stands.
Test(s, pat, ci) ==
    IF pat[1].t = "lit"
    THEN \E i \in 1..Len(s) :
             /\ (IF ci THEN ToLowerChar(s[i]) ELSE s[i]) = pat[1].v[1]
             /\ MatchesAt(s, i, pat, ci)
    ELSE \E i \in 1..(Len(s) + 1) : MatchesAt(s, i, pat, ci)

\* s.match(pattern).index: the 0-based index of the leftmost match, -1 when
\* there is none.
MatchIndex(s, pat, ci) ==
    LET starts == {i \in 1..(Len(s) + 1) : MatchesAt(s, i, pat, ci)}
    IN  IF starts = {} THEN -1 ELSE SetMin(starts) - 1

----------------------------------------------------------------------------
(* identifyHealthCheckSection *)

SectionWindow == 300

sectionPatterns ==
    <<
      [section |-> Chars("Content Modelling"), patterns |-> <<
          <<L("content"), WsStar, L("modelling")>>,
          <<L("content"), WsStar, L("modeling")>>,
          <<L("content"), WsStar, L("model")>>>>],
      [section |-> Chars("Actions Required"), patterns |-> <<
          <<L("action"), Opt("s"), WsStar, L("required")>>,
          <<L("action"), WsStar, L("items")>>>>],
      [section |-> Chars("Content Types"), patterns |-> <<
          <<L("content"), WsStar, L("type"), Opt("s"), WsStar, L("title")>>,
          <<L("rarely"), WsStar, L("used"), WsStar, L("content"), WsStar, L("types")>>,
          <<L("unused"), WsStar, L("content"), WsStar, L("types")>>>>],
      [section |-> Chars("Global Fields"), patterns |-> <<
          <<L("global"), WsStar, L("fields")>>,
          <<L("unused"), WsStar, L("global"), WsStar, L("fields")>>>>],
      [section |-> Chars("Areas of Opportunities"), patterns |-> <<
          <<L("area"), Opt("s"), WsStar, L("of"), WsStar, L("opportunit")>>>>],
      [section |-> Chars("Naming Standards"), patterns |-> <<
          <<L("naming"), WsStar, L("standards")>>,
          <<L("naming"), WsStar, L("convention")>>,
          <<L("recommendation"), WsStar, L("message")>>,
          <<L("recommended"), WsStar, L("title")>>>>],
      [section |-> Chars("Validation Rules"), patterns |-> <<
          <<L("validation"), WsStar, L("rules")>>,
          <<L("field"), WsStar, L("name")>>>>],
      [section |-> Chars("Descriptions"), patterns |-> <<
          <<L("description"), Opt("s"), L(":")>>,
          <<L("content"), WsStar, L("types"), AnyStar, L("description")>>>>],
      [section |-> Chars("Entries"), patterns |-> <<
          <<L("entries")>>,
          <<L("entry"), WsStar, L("count")>>>>],
      [section |-> Chars("Assets"), patterns |-> <<
          <<L("asset"), Opt("s")>>,
          <<L("media")>>>>],
      [section |-> Chars("Workflows"), patterns |-> <<
          <<L("workflow"), Opt("s")>>,
          <<L("publishing")>>>>],
      [section |-> Chars("Webhooks"), patterns |-> <<
          <<L("webhook"), Opt("s")>>>>],
      [section |-> Chars("Extensions"), patterns |-> <<
          <<L("extension"), Opt("s")>>,
          <<L("custom"), WsStar, L("field"), Opt("s")>>>>],
      [section |-> Chars("Users & Roles"), patterns |-> <<
          <<L("user"), Opt("s"), WsStar, Alt(<<Chars("&"), Chars("and")>>), WsStar, L("role"), Opt("s")>>,
          <<L("permission"), Opt("s")>>>>],
      [section |-> Chars("Security"), patterns |-> <<
          <<L("security")>>,
          <<L("api"), WsStar, L("key"), Opt("s")>>,
          <<L("token"), Opt("s")>>>>],
      [section |-> Chars("Performance"), patterns |-> <<
          <<L("performance")>>,
          <<L("optimization")>>>>],
      [section |-> Chars("Recommendations"), patterns |-> <<
          <<L("recommendation"), Opt("s")>>,
          <<L("suggestion"), Opt("s")>>>>],
      [section |-> Chars("Stack Overview"), patterns |-> <<
          <<L("stack"), WsStar, L("overview")>>,
          <<L("stack"), WsStar, L("info")>>,
          <<L("stack"), WsStar, L("details")>>>>],
      [section |-> Chars("Locales"), patterns |-> <<
          <<L("locale"), Opt("s")>>,
          <<L("language"), Opt("s")>>>>],
      [section |-> Chars("Environments"), patterns |-> <<
          <<L("environment"), Opt("s")>>,
          <<L("branche"), Opt("s")>>>>]
    >>

\* Every pattern of the table begins with a literal.  For a character c, the
\* patterns that begin with c, each as <<row, index in the row>>.
PatternsStartingWith ==
    [c \in LowerLetters |->
        {rp \in UNION {{<<r, p>> : p \in 1..Len(sectionPatterns[r].patterns)} :
                           r \in 1..Len(sectionPatterns)} :
            sectionPatterns[rp[1]].patterns[rp[2]][1].v[1] = c}]

\* The rows of the table with a pattern that matches somewhere in textLower.
MatchingRows(textLower) ==
    UNION {{rp[1] : rp \in {q \in PatternsStartingWith[textLower[i]] :
                               MatchesAt(textLower, i,
                                         sectionPatterns[q[1]].patterns[q[2]], TRUE)}} :
              i \in {j \in 1..Len(textLower) : textLower[j] \in LowerLetters}}

\* The label of the last matching row, where the loops return at the first.
LastSection(textLower) ==
    LET rows == MatchingRows(textLower)
    IN  IF rows = {} THEN Chars("General") ELSE sectionPatterns[SetMax(rows)].section

\* The loops return at the first row, in declaration order, that has a
\* matching pattern: the least of the matching rows.
FirstSection(textLower) ==
    LET rows == MatchingRows(textLower)
    IN  IF rows = {} THEN Chars("General") ELSE sectionPatterns[SetMin(rows)].section

identifyHealthCheckSection(text) ==
    FirstSection(Substring(ToLowerCase(text), 0, SectionWindow))

----------------------------------------------------------------------------
(* containsTable *)

displayingRecords ==
    <<L("displaying"), WsPlus, Digits, WsPlus, OptSeq(<<L("of"), WsPlus>>),
      Digits, WsStar, L("record"), Opt("s")>>

columnHeaders ==
    <<<<L("content"), WsStar, L("type"), Opt("s"), WsStar, L("title")>>,
      <<L("created"), WsStar, L("on")>>,
      <<L("field"), WsStar, L("name")>>,
      <<L("recommendation")>>>>

containsTable(text) ==
    \/ Test(text, displayingRecords, TRUE)
    \/ \E a \in 1..Len(columnHeaders) : Test(text, columnHeaders[a], TRUE)

----------------------------------------------------------------------------
(* createHealthCheckChunks and its helpers.  A chunk is a record           *)
(* [content, section, chunkIndex, startChar, endChar]; the random id of a  *)
(* DocumentChunk is left out.                                              *)

MinSectionLength == 20
MinBeforeTableLength == 50

\* A chunk whose endChar is the length of its content, as the fallback
\* chunk's is, whatever its startChar.
ChunkEndingAtLength(content, section, chunkIndex, startChar, endChar) ==
    [content |-> content, section |-> section, chunkIndex |-> chunkIndex,
     startChar |-> startChar, endChar |-> Len(content)]

Chunk(content, section, chunkIndex, startChar, endChar) ==
    [content |-> content, section |-> section, chunkIndex |-> chunkIndex,
     startChar |-> startChar, endChar |-> endChar]

TableDataSuffix == Chars(" - Table Data")

\* .filter(s => s && s.trim().length > 0)
NonBlank(parts) == SelectSeq(parts, LAMBDA x : Trim(x) # <<>>)

\* The alternatives of the capture group of mainSectionPattern, in order.
mainSectionHeaders ==
    <<<<L("content"), WsStar, L("modelling")>>,
      <<L("actions"), WsStar, L("required")>>,
      <<L("areas"), WsStar, L("of"), WsStar, L("opportunities")>>,
      <<L("global"), WsStar, L("fields")>>,
      <<L("naming"), WsStar, L("standards")>>,
      <<L("validation"), WsStar, L("rules")>>,
      <<L("stack"), WsStar, L("overview")>>,
      <<L("security")>>,
      <<L("performance")>>,
      <<L("recommendations")>>,
      <<L("entries")>>,
      <<L("assets")>>,
      <<L("workflows")>>,
      <<L("webhooks")>>,
      <<L("extensions")>>,
      <<L("users")>>,
      <<L("locales")>>,
      <<L("environments")>>>>

\* The position after the header that the lookahead of mainSectionPattern
\* captures at position i (the first alternative, from a on, that matches
\* there), 0 when none does.
RECURSIVE HeaderEndAt(_, _, _)
HeaderEndAt(s, i, a) ==
    IF a > Len(mainSectionHeaders) THEN 0
    ELSE IF MatchesAt(s, i, mainSectionHeaders[a], TRUE)
         THEN SetMax(MatchFrom(s, i, mainSectionHeaders[a], 1, TRUE))
    ELSE HeaderEndAt(s, i, a + 1)

\* text.split(mainSectionPattern): the text is cut at every newline that a
\* header follows, and, the group being a capture group, String.split puts
\* the captured header text into the result after each piece.
RECURSIVE SplitMainAt(_, _, _, _)
SplitMainAt(s, cuts, k, segStart) ==
    IF k > Len(cuts) THEN <<SubSeq(s, segStart, Len(s))>>
    ELSE LET i == cuts[k]
         IN  <<SubSeq(s, segStart, i - 1),
               SubSeq(s, i + 1, HeaderEndAt(s, i + 1, 1) - 1)>>
                 \o SplitMainAt(s, cuts, k + 1, i + 1)

SplitMain(text) ==
    SplitMainAt(text,
                Sorted({i \in 1..Len(text) :
                           text[i] = "\n" /\ HeaderEndAt(text, i + 1, 1) # 0}),
                1, 1)

\* /\n(?=<BULLET>\s+[A-Z][a-z])/g
bulletLookahead ==
    <<Lit(<<"<BULLET>">>), WsPlus, Cls(UpperLetters), Cls(LowerLetters)>>

\* The pieces of s between the separators that start at the positions
\* cuts[k..] (increasing); the separator at position i is sepLen[i] long.
RECURSIVE SplitAt(_, _, _, _, _)
SplitAt(s, cuts, sepLen, k, segStart) ==
    IF k > Len(cuts) THEN <<SubSeq(s, segStart, Len(s))>>
    ELSE LET i == cuts[k]
         IN  <<SubSeq(s, segStart, i - 1)>>
                 \o SplitAt(s, cuts, sepLen, k + 1, i + sepLen[i])

SplitBullets(text) ==
    SplitAt(text,
            Sorted({i \in 1..Len(text) :
                       text[i] = "\n" /\ MatchesAt(text, i + 1, bulletLookahead, FALSE)}),
            [i \in 1..Len(text) |-> 1], 1, 1)

\* text.split(/\n\n+/): a separator is a maximal run of two or more newlines.
SplitParagraphs(text) ==
    SplitAt(text,
            Sorted({i \in 1..Len(text) :
                       /\ text[i] = "\n"
                       /\ (i = 1 \/ text[i - 1] # "\n")
                       /\ RunLen(text, i, {"\n"}) >= 2}),
            [i \in 1..Len(text) |-> RunLen(text, i, {"\n"})], 1, 1)

\* The sections createHealthCheckChunks iterates over.
Sections(text) ==
    LET mainSections == NonBlank(SplitMain(text))
        bulletSections == NonBlank(SplitBullets(text))
    IN  IF Len(mainSections) > 1 THEN mainSections
        ELSE IF Len(bulletSections) > 1 THEN bulletSections
        ELSE NonBlank(SplitParagraphs(text))

\* searchArea.lastIndexOf(sub): 0-based, -1 when sub does not occur.
LastIndexOf(s, sub) ==
    LET at == {i \in 1..Len(s) : LitAt(s, i, sub, FALSE)}
    IN  IF at = {} THEN -1 ELSE SetMax(at) - 1

\* The end of the window that starts at start: start + maxSize, moved back to
\* the best break point when the window ends before the text does.
WindowEnd(text, start, maxSize) ==
    LET end == Min(start + maxSize, Len(text))
        searchArea == Substring(text, start, end)
        breakPoints == {LastIndexOf(searchArea, <<"\n", "\n">>),
                        LastIndexOf(searchArea, <<".", " ">>),
                        LastIndexOf(searchArea, <<"\n">>),
                        LastIndexOf(searchArea, <<",", " ">>)}
        kept == {b \in breakPoints : b * 3 > maxSize}
    IN  IF end < Len(text) /\ kept # {} /\ SetMax(kept) > 0
        THEN start + SetMax(kept) + 1
        ELSE end

NextStartUnguarded(start, end, overlap) == end - overlap

\* start = nextStart > start ? nextStart : end, with nextStart = end - overlap
NextStart(start, end, overlap) ==
    IF end - overlap > start THEN end - overlap ELSE end

\* One iteration of the loop of splitLargeSection at window start, created
\* chunks having been pushed before: the chunk pushed, if any, and the next
\* value of start.
SplitIteration(text, sectionName, maxSize, overlap, startChunkIndex, globalCharIndex, start, created) ==
    LET end == WindowEnd(text, start, maxSize)
        chunkText == Trim(Substring(text, start, end))
    IN  [pushed |-> IF Len(chunkText) > MinSectionLength
                    THEN <<Chunk(chunkText, sectionName, startChunkIndex + created,
                                 globalCharIndex + start, globalCharIndex + end)>>
                    ELSE <<>>,
         start |-> NextStart(start, end, overlap)]

\* The chunks splitLargeSection pushes from window start on.  The function's
\* result, chunksCreated, is the length of the sequence.
RECURSIVE SplitLargeFrom(_, _, _, _, _, _, _, _)
SplitLargeFrom(text, sectionName, maxSize, overlap, startChunkIndex, globalCharIndex, start, created) ==
    IF ~(start < Len(text)) THEN <<>>
    ELSE LET it == SplitIteration(text, sectionName, maxSize, overlap,
                                  startChunkIndex, globalCharIndex, start, created)
         IN  it.pushed \o SplitLargeFrom(text, sectionName, maxSize, overlap,
                                         startChunkIndex, globalCharIndex,
                                         it.start, created + Len(it.pushed))

splitLargeSection(text, sectionName, maxSize, overlap, startChunkIndex, globalCharIndex) ==
    SplitLargeFrom(text, sectionName, maxSize, overlap, startChunkIndex,
                   globalCharIndex, 0, 0)

\* /Displaying\s+\d+/i
displayingN == <<L("displaying"), WsPlus, Digits>>

\* tableContent.match(/Displaying\s+\d+.*?records?\s*/i): the matched text,
\* empty when there is no match.  The lazy .*? stops at the first 'record' on
\* the line of the digits; the optional s and the white space are greedy.
TableHeader(tableContent) ==
    LET upToRecord == <<L("displaying"), WsPlus, Digits, AnyStar, L("record")>>
        idx == MatchIndex(tableContent, upToRecord, TRUE)
        e1 == SetMin(MatchFrom(tableContent, idx + 1, upToRecord, 1, TRUE))
        e2 == SetMax(MatchFrom(tableContent, e1, <<Opt("s"), WsStar>>, 1, TRUE))
    IN  IF idx < 0 THEN <<>> ELSE SubSeq(tableContent, idx + 1, e2 - 1)

\* The loop of splitTableContent over lines[k..], with the chunk under
\* construction and the running index and offset.
RECURSIVE SplitTableFrom(_, _, _, _, _, _, _, _)
SplitTableFrom(lines, k, header, maxSize, sectionName, currentChunk, chunkIndex, currentStartChar) ==
    IF k > Len(lines)
    THEN IF Len(Trim(currentChunk)) > 0
         THEN <<Chunk(Trim(currentChunk), sectionName \o TableDataSuffix,
                      chunkIndex, currentStartChar,
                      currentStartChar + Len(currentChunk))>>
         ELSE <<>>
    ELSE LET line == lines[k]
             full == Len(currentChunk) + Len(line) + 1 > maxSize
                         /\ Len(currentChunk) > 0
             pushed == IF full
                       THEN <<Chunk(Trim(currentChunk), sectionName \o TableDataSuffix,
                                    chunkIndex, currentStartChar,
                                    currentStartChar + Len(currentChunk))>>
                       ELSE <<>>
             base == IF full THEN header ELSE currentChunk
             sep == IF base # <<>> THEN <<"\n">> ELSE <<>>
         IN  pushed \o SplitTableFrom(lines, k + 1, header, maxSize, sectionName,
                                      base \o sep \o line,
                                      IF full THEN chunkIndex + 1 ELSE chunkIndex,
                                      IF full THEN currentStartChar + Len(currentChunk)
                                              ELSE currentStartChar)

splitTableContent(tableContent, maxSize, sectionName, startIndex, startChar) ==
    SplitTableFrom(SplitLines(tableContent), 1, TableHeader(tableContent), maxSize,
                   sectionName, <<>>, startIndex, startChar)

\* The chunks of the table branch for a segment whose caption starts at the
\* 0-based index idx > 0.
TableBranch(trimmedSection, sectionName, idx, maxChunkSize, chunkIndex, globalCharIndex) ==
    LET beforeTable == Trim(Substring(trimmedSection, 0, idx))
        before == IF Len(beforeTable) > MinBeforeTableLength
                  THEN <<Chunk(beforeTable, sectionName, chunkIndex, globalCharIndex,
                               globalCharIndex + Len(beforeTable))>>
                  ELSE <<>>
        tableContent == Trim(Substring(trimmedSection, idx, Len(trimmedSection)))
        tableIndex == chunkIndex + Len(before)
        table == IF Len(tableContent) > 0
                 THEN IF Len(tableContent) > maxChunkSize * 2
                      THEN splitTableContent(tableContent, maxChunkSize, sectionName,
                                             tableIndex, globalCharIndex + idx)
                      ELSE <<Chunk(tableContent, sectionName \o TableDataSuffix,
                                   tableIndex, globalCharIndex + idx,
                                   globalCharIndex + Len(trimmedSection))>>
                 ELSE <<>>
    IN  before \o table

FallbackChunksOfLongText(text, chunks, maxChunkSize) ==
    IF Len(chunks) = 0 /\ Len(Trim(text)) >= MinSectionLength
    THEN LET content == Substring(Trim(text), 0, maxChunkSize * 2)
         IN  <<Chunk(content, Chars("General"), 0, 0, Len(content))>>
    ELSE <<>>

FallbackChunksWhole(text, chunks, maxChunkSize) ==
    IF Len(chunks) = 0 /\ Len(Trim(text)) > 0
    THEN <<Chunk(Trim(text), Chars("General"), 0, 0, Len(Trim(text)))>>
    ELSE <<>>

\* The fallback of createHealthCheckChunks: one chunk from the whole text when
\* the loop produced none.
FallbackChunks(text, chunks, maxChunkSize) ==
    IF Len(chunks) = 0 /\ Len(Trim(text)) > 0
    THEN LET content == Substring(Trim(text), 0, maxChunkSize * 2)
         IN  <<Chunk(content, Chars("General"), 0, 0, Len(content))>>
    ELSE <<>>

\* The result of the loop body of createHealthCheckChunks for one section:
\* the chunks pushed, and chunkIndex and globalCharIndex after it.  counted
\* tells whether the number of chunks pushed was added to chunkIndex.
StepResult(pushed, chunkIndex, counted, globalCharIndex) ==
    [pushed |-> pushed,
     chunkIndex |-> IF counted THEN chunkIndex + Len(pushed) ELSE chunkIndex,
     globalCharIndex |-> globalCharIndex]

\* A section longer than maxChunkSize.  The table branch is taken when the
\* section has a table and its caption is found at an index above 0; the
\* result of splitLargeSection is added to chunkIndex only when the section
\* has no table.
LargeSectionStep(trimmedSection, sectionName, hasTable, idx, chunkIndex, globalCharIndex, nextCharIndex, maxChunkSize, overlap) ==
    IF hasTable /\ idx > 0
    THEN StepResult(TableBranch(trimmedSection, sectionName, idx, maxChunkSize,
                                chunkIndex, globalCharIndex),
                    chunkIndex, TRUE, nextCharIndex)
    ELSE StepResult(splitLargeSection(trimmedSection, sectionName, maxChunkSize,
                                      overlap, chunkIndex, globalCharIndex),
                    chunkIndex, ~hasTable, nextCharIndex)

\* A section of at least 20 characters, with its label.
NamedSectionStep(trimmedSection, sectionName, chunkIndex, globalCharIndex, nextCharIndex, maxChunkSize, overlap) ==
    IF Len(trimmedSection) <= maxChunkSize
    THEN StepResult(<<Chunk(trimmedSection, sectionName, chunkIndex, globalCharIndex,
                            globalCharIndex + Len(trimmedSection))>>,
                    chunkIndex, TRUE, nextCharIndex)
    ELSE LargeSectionStep(trimmedSection, sectionName, containsTable(trimmedSection),
                          MatchIndex(trimmedSection, displayingN, TRUE),
                          chunkIndex, globalCharIndex, nextCharIndex,
                          maxChunkSize, overlap)

\* A section after section.trim(): skipped when shorter than 20 characters.
TrimmedSectionStep(trimmedSection, chunkIndex, globalCharIndex, nextCharIndex, maxChunkSize, overlap) ==
    IF Len(trimmedSection) < MinSectionLength
    THEN StepResult(<<>>, chunkIndex, FALSE, globalCharIndex)
    ELSE NamedSectionStep(trimmedSection, identifyHealthCheckSection(trimmedSection),
                          chunkIndex, globalCharIndex, nextCharIndex,
                          maxChunkSize, overlap)

\* The body of the loop of createHealthCheckChunks for one section.
SectionStep(section, chunkIndex, globalCharIndex, maxChunkSize, overlap) ==
    TrimmedSectionStep(Trim(section), chunkIndex, globalCharIndex,
                       globalCharIndex + Len(section), maxChunkSize, overlap)

\* The loop of createHealthCheckChunks over sections[k..]: the chunks pushed
\* so far, and the running chunkIndex and globalCharIndex.
RECURSIVE ChunkSections(_, _, _, _, _, _, _)
RECURSIVE AfterSection(_, _, _, _, _, _)
ChunkSections(sections, k, chunks, chunkIndex, globalCharIndex, maxChunkSize, overlap) ==
    IF k > Len(sections) THEN chunks
    ELSE AfterSection(sections, k, chunks,
                      SectionStep(sections[k], chunkIndex, globalCharIndex,
                                  maxChunkSize, overlap),
                      maxChunkSize, overlap)

\* The loop goes on after the section sections[k] with the result of its body.
AfterSection(sections, k, chunks, step, maxChunkSize, overlap) ==
    ChunkSections(sections, k + 1, chunks \o step.pushed, step.chunkIndex,
                  step.globalCharIndex, maxChunkSize, overlap)

\* The chunks pushed by the loop over the sections.
LoopChunks(text, maxChunkSize, overlap) ==
    ChunkSections(Sections(text), 1, <<>>, 0, 0, maxChunkSize, overlap)

\* The chunks returned, given the chunks pushed by the loop.
WithFallback(text, chunks, maxChunkSize) ==
    chunks \o FallbackChunks(text, chunks, maxChunkSize)

createHealthCheckChunks(text, maxChunkSize, overlap) ==
    IF Len(Trim(text)) = 0 THEN <<>>
    ELSE WithFallback(text, LoopChunks(text, maxChunkSize, overlap), maxChunkSize)

----------------------------------------------------------------------------
(* extractHealthCheckMetrics: the counts of the first page and the         *)
(* breakdown.  A JavaScript value is a record: a number, NaN or undefined. *)
(* The result of a regular-expression match is its captured digit string,  *)
(* or NoMatch (the capture \d+ is never empty).                            *)

Undefined == [kind |-> "undefined", val |-> 0]
NaN == [kind |-> "NaN", val |-> 0]
Num(n) == [kind |-> "number", val |-> n]
JsNull == [kind |-> "null", val |-> 0]

\* if (v), !v and v || 0: undefined, NaN and 0 are falsy
Truthy(v) == v.kind = "number" /\ v.val # 0
OrZero(v) == IF Truthy(v) THEN v.val ELSE 0

\* a + b, a === b and a > b on numbers and NaN
Add(a, b) ==
    IF a.kind = "number" /\ b.kind = "number" THEN Num(a.val + b.val) ELSE NaN
StrictEq(a, b) == a.kind = "number" /\ b.kind = "number" /\ a.val = b.val
GreaterThan(a, b) == a.kind = "number" /\ b.kind = "number" /\ a.val > b.val

NoMatch == <<>>

DigitValue ==
    [c \in DigitChars |->
        CASE c = "0" -> 0 [] c = "1" -> 1 [] c = "2" -> 2 [] c = "3" -> 3
          [] c = "4" -> 4 [] c = "5" -> 5 [] c = "6" -> 6 [] c = "7" -> 7
          [] c = "8" -> 8 [] c = "9" -> 9]

RECURSIVE DecimalValue(_)
DecimalValue(digits) ==
    IF digits = <<>> THEN 0
    ELSE DecimalValue(SubSeq(digits, 1, Len(digits) - 1)) * 10
             + DigitValue[digits[Len(digits)]]

\* parseInt of a string of digits; parseInt("") is NaN
ParseInt(digits) == IF digits = <<>> THEN NaN ELSE Num(DecimalValue(digits))

\* String.prototype.slice(start, end) and slice(start)
SliceIndex(len, k) == IF k < 0 THEN Max(len + k, 0) ELSE Min(k, len)
Slice(s, start, end) ==
    Substring(s, SliceIndex(Len(s), start), Max(SliceIndex(Len(s), start),
                                                SliceIndex(Len(s), end)))
SliceFrom(s, start) == Slice(s, start, Len(s))

\* metrics.totalChecks after the total-checks probe
TotalChecks(totalChecksMatch) ==
    IF totalChecksMatch # NoMatch THEN ParseInt(totalChecksMatch) ELSE Undefined

SplitAcceptedAtMost(performed, skipped, totalChecks) ==
    ~GreaterThan(Add(performed, skipped), totalChecks)

\* if (performed + skipped === metrics.totalChecks)
SplitAccepted(performed, skipped, totalChecks) ==
    StrictEq(Add(performed, skipped), totalChecks)

\* The split positions i of the loop that are accepted.
ExactSplits(combinedNum, totalChecks) ==
    {i \in 1..(Len(combinedNum) - 1) :
        SplitAccepted(ParseInt(Substring(combinedNum, 0, i)),
                      ParseInt(Substring(combinedNum, i, Len(combinedNum))),
                      totalChecks)}

\* The split used when no position is accepted: the last digit is skipped,
\* or the last two digits when performed would exceed totalChecks.
FallbackSplit(combinedNum, totalChecks) ==
    LET performed == ParseInt(Slice(combinedNum, 0, -1))
        skipped == ParseInt(SliceFrom(combinedNum, -1))
    IN  IF GreaterThan(performed, totalChecks)
        THEN [performedChecks |-> ParseInt(Slice(combinedNum, 0, -2)),
              skippedChecks |-> ParseInt(SliceFrom(combinedNum, -2))]
        ELSE [performedChecks |-> performed, skippedChecks |-> skipped]

\* The branch with the loop going on to the last accepted position.
SplitCombinedLast(combinedNum, totalChecks) ==
    IF Truthy(totalChecks)
    THEN LET found == ExactSplits(combinedNum, totalChecks)
             i == SetMax(found)
         IN  IF found # {}
             THEN [performedChecks |-> ParseInt(Substring(combinedNum, 0, i)),
                   skippedChecks |->
                       ParseInt(Substring(combinedNum, i, Len(combinedNum)))]
             ELSE IF Len(combinedNum) >= 2
             THEN FallbackSplit(combinedNum, totalChecks)
             ELSE [performedChecks |-> Undefined, skippedChecks |-> Undefined]
    ELSE [performedChecks |-> ParseInt(Slice(combinedNum, 0, -1)),
          skippedChecks |-> ParseInt(SliceFrom(combinedNum, -1))]

\* The branch taken when the combined numeral is found.
SplitCombined(combinedNum, totalChecks) ==
    IF Truthy(totalChecks)
    THEN LET found == ExactSplits(combinedNum, totalChecks)
             i == SetMin(found)
         IN  IF found # {}
             THEN [performedChecks |-> ParseInt(Substring(combinedNum, 0, i)),
                   skippedChecks |->
                       ParseInt(Substring(combinedNum, i, Len(combinedNum)))]
             ELSE IF Len(combinedNum) >= 2
             THEN FallbackSplit(combinedNum, totalChecks)
             ELSE [performedChecks |-> Undefined, skippedChecks |-> Undefined]
    ELSE [performedChecks |-> ParseInt(Slice(combinedNum, 0, -1)),
          skippedChecks |-> ParseInt(SliceFrom(combinedNum, -1))]

\* The branch taken when it is not: the two separate probes.
SeparateChecks(performedMatch, skippedMatch) ==
    [performedChecks |->
         IF performedMatch # NoMatch THEN ParseInt(performedMatch) ELSE Undefined,
     skippedChecks |->
         IF skippedMatch # NoMatch THEN ParseInt(skippedMatch) ELSE Undefined]

PerformedSkipped(checksMatch, performedMatch, skippedMatch, totalChecks) ==
    IF checksMatch # NoMatch
    THEN SplitCombined(checksMatch, totalChecks)
    ELSE SeparateChecks(performedMatch, skippedMatch)

\* The report below the first page, as the counting sees it: the sections
\* that text.split(/(?=Actions Required|Areas of Opportunities|Strengths)/gi)
\* gives, each with the header it starts with, whether that header is on a
\* line of its own, and the number of its "Label:" item lines.
Categories == {"actions required", "areas of opportunities", "strengths"}

\* text.split(/\n\s*<header>\s*\n/i).length - 1
SectionsCount(doc, category) ==
    Cardinality({k \in DOMAIN doc : doc[k].header = category /\ doc[k].ownLine})

\* actionsCount, oppsCount, strengthsCount after the loop over the sections
RECURSIVE ItemsCount(_, _)
ItemsCount(doc, category) ==
    IF doc = <<>> THEN 0
    ELSE ItemsCount(Tail(doc), category)
             + (IF Head(doc).header = category
                THEN Max(1, Head(doc).itemCount) ELSE 0)

CountBreakdownOf(doc) ==
    [actionsRequiredSections |-> SectionsCount(doc, "actions required"),
     opportunitiesSections |-> SectionsCount(doc, "areas of opportunities"),
     strengthsSections |-> SectionsCount(doc, "strengths"),
     actionsCount |-> ItemsCount(doc, "actions required"),
     oppsCount |-> ItemsCount(doc, "areas of opportunities"),
     strengthsCount |-> ItemsCount(doc, "strengths")]

\* if (sections > 0 || count > 0) metrics.x = Math.max(sections, count)
CountedValue(sections, count) ==
    IF sections > 0 \/ count > 0 THEN Num(Max(sections, count)) ELSE Undefined

TruncPct(p, pct) == (p * pct) \div 100

\* Math.round(p * 0.40), Math.round(p * 0.38), Math.round(p * 0.22): for
\* every p below 100000 the double product rounds as the exact one does.
RoundPct(p, pct) == (p * pct + 50) \div 100

\* The estimate step on the metrics m.
Estimated(m) ==
    LET p == m.performedChecks.val
        breakdownSum == OrZero(m.actionsRequired)
                            + OrZero(m.areasOfOpportunities) + OrZero(m.strengths)
    IN  IF Truthy(m.performedChecks)
             /\ (breakdownSum = 0 \/ breakdownSum > p * 2)
        THEN [m EXCEPT
                 !.strengths =
                     IF ~Truthy(@) THEN Num(RoundPct(p, 40)) ELSE @,
                 !.areasOfOpportunities =
                     IF ~Truthy(@) THEN Num(RoundPct(p, 38)) ELSE @,
                 !.actionsRequired =
                     IF ~Truthy(@) THEN Num(RoundPct(p, 22)) ELSE @]
        ELSE m

----------------------------------------------------------------------------
(* The variables of a specification that is not running. *)

NormIdle == nIn = <<>> /\ nOut = <<>> /\ nOut2 = <<>>
ChunkIdle ==
    cText = <<>> /\ cMax = 0 /\ cOverlap = 0 /\ cChunks = <<>> /\ cFallback = FALSE
SplitIdle ==
    sText = <<>> /\ sMax = 0 /\ sOverlap = 0 /\ sStart = 0 /\ sChunks = <<>>
IdentifyIdle == iText = <<>> /\ iSection = <<>>
StoreIdle == reports = <<>> /\ sReturn = Undefined /\ sDeletes = 0
UploadIdle == uRequest = Undefined /\ uResponse = Undefined
ChatIdle ==
    /\ chRequest = Undefined /\ chCustom = Undefined /\ chConsulted = <<>>
    /\ chReply = Undefined /\ chResponse = Undefined
ThreadIdle == threadFiles = <<>> /\ threadsCreated = 0 /\ threadReturn = Undefined
SummaryIdle == pText = <<>> /\ pCounts = Undefined /\ pParsed = Undefined
PageIdle ==
    /\ pageSessionId = "" /\ pageFilename = "" /\ summaryData = JsNull
    /\ summaryLoading = FALSE /\ summaryError = "" /\ uploadError = ""
    /\ pageMetrics = JsNull /\ summarizing = {} /\ uploads = 0
GenerateIdle ==
    /\ gSkipRetry = FALSE /\ gAttempt = 0 /\ gLastError = Undefined
    /\ gRequests = 0 /\ gWait = Undefined /\ gResult = Undefined
MetricsIdle ==
    /\ mMatches = [totalChecksMatch |-> NoMatch, checksMatch |-> NoMatch,
                   performedMatch |-> NoMatch, skippedMatch |-> NoMatch]
    /\ mCounts = CountBreakdownOf(<<>>)
    /\ metrics = [totalChecks |-> Undefined, performedChecks |-> Undefined,
                  skippedChecks |-> Undefined, actionsRequired |-> Undefined,
                  areasOfOpportunities |-> Undefined, strengths |-> Undefined]

----------------------------------------------------------------------------
(* Specification SpecNormalize: normalizeText applied once and twice to    *)
(* every raw text of at most MaxRawLen characters.                         *)

NormAlphabet == {"a", " ", "\n", "\r", "<NBSP>"}

InitNormalize ==
    /\ PageIdle
    /\ SummaryIdle
    /\ ThreadIdle
    /\ ChatIdle
    /\ GenerateIdle
    /\ UploadIdle
    /\ StoreIdle
    /\ IdentifyIdle
    /\ pc = "raw"
    /\ nIn \in SeqsUpTo(NormAlphabet, MaxRawLen)
    /\ nOut = <<>>
    /\ nOut2 = <<>>
    /\ ChunkIdle
    /\ SplitIdle
    /\ MetricsIdle

Normalize ==
    /\ pc = "raw"
    /\ nOut' = normalizeText(nIn)
    /\ pc' = "normalized"
    /\ UNCHANGED <<nIn, nOut2, chunkVars, splitVars, metricVars, identVars, storeVars, uploadVars, genVars, chatVars, threadVars, summaryVars, pageVars>>

NormalizeAgain ==
    /\ pc = "normalized"
    /\ nOut2' = normalizeText(nOut)
    /\ pc' = "renormalized"
    /\ UNCHANGED <<nIn, nOut, chunkVars, splitVars, metricVars, identVars, storeVars, uploadVars, genVars, chatVars, threadVars, summaryVars, pageVars>>

NextNormalize == Normalize \/ NormalizeAgain

SpecNormalize == InitNormalize /\ [][NextNormalize]_vars

\* True when s has three consecutive newline characters.
HasNewlineRun3(s) ==
    \E i \in 1..Len(s) - 2 : s[i] = "\n" /\ s[i + 1] = "\n" /\ s[i + 2] = "\n"

\* C5: normalizeText(normalizeText(x)) = normalizeText(x) for every input x.
C5_Idempotent == pc = "renormalized" => nOut2 = nOut

\* C6: the output of normalizeText has no run of three or more newlines.
C6_NoNewlineRun3 == pc # "raw" => ~HasNewlineRun3(nOut)

----------------------------------------------------------------------------
(* Specification SpecChunk: createHealthCheckChunks applied to normalized  *)
(* texts made of at most MaxPieces lines, with small chunk sizes so that   *)
(* short lines make small, oversized and table segments.                   *)

Pieces ==
    {Chars("Security review found"),
     Chars("alpha beta, gamma. delta epsilon zeta"),
     Chars("Displaying 5 of 9 records"),
     Chars("Displaying 5"),
     Chars("created on"),
     <<>>}

ChunkTexts ==
    {normalizeText(JoinLines(ps)) : ps \in SeqsUpTo(Pieces, MaxPieces)} \ {<<>>}

ChunkSizes == {1, 24, 40}
Overlaps == {0, 6, 30}

\* The default maxChunkSize of createHealthCheckChunks.
DefaultMaxChunkSize == 1500

\* A report with a stack overview, an "Actions Required" header at a line
\* start and a "Strengths" header at a line start.
EndToEndText ==
    normalizeText(Chars("Stack Overview\nStack: acme\nPage 1 of 5\n\nActions Required\nFix A: description text that is long enough.\n\nStrengths\nGood config: description text that is long enough."))

ChunkInputs ==
    (ChunkTexts \X ChunkSizes) \cup ({EndToEndText} \X {SetMax(ChunkSizes), DefaultMaxChunkSize})

InitChunk ==
    /\ PageIdle
    /\ SummaryIdle
    /\ ThreadIdle
    /\ ChatIdle
    /\ GenerateIdle
    /\ UploadIdle
    /\ StoreIdle
    /\ IdentifyIdle
    /\ pc = "text"
    /\ \E input \in ChunkInputs : cText = input[1] /\ cMax = input[2]
    /\ cOverlap \in Overlaps
    /\ cChunks = <<>>
    /\ cFallback = FALSE
    /\ NormIdle
    /\ SplitIdle
    /\ MetricsIdle

ChunkText ==
    /\ pc = "text"
    /\ cChunks' = createHealthCheckChunks(cText, cMax, cOverlap)
    /\ cFallback' = (FallbackChunks(cText, LoopChunks(cText, cMax, cOverlap), cMax) # <<>>)
    /\ pc' = "chunked"
    /\ UNCHANGED <<cText, cMax, cOverlap, normVars, splitVars, metricVars, identVars, storeVars, uploadVars, genVars, chatVars, threadVars, summaryVars, pageVars>>

NextChunk == ChunkText

SpecChunk == InitChunk /\ [][NextChunk]_vars

EndsWith(s, suffix) ==
    Len(s) >= Len(suffix) /\ SubSeq(s, Len(s) - Len(suffix) + 1, Len(s)) = suffix

IsTableChunk(c) == EndsWith(c.section, TableDataSuffix)

\* C1: the first chunk has chunkIndex 0 and every later chunk has a
\* chunkIndex strictly greater than its predecessor's.
C1_IndexIncreasing ==
    pc = "chunked" =>
        /\ cChunks # <<>> => cChunks[1].chunkIndex = 0
        /\ \A i \in 2..Len(cChunks) :
               cChunks[i].chunkIndex > cChunks[i - 1].chunkIndex

\* C2: every chunk whose section label does not end in ' - Table Data' has
\* content length <= maxChunkSize.
C2_NonTableWithinMax ==
    pc = "chunked" =>
        \A i \in 1..Len(cChunks) :
            ~IsTableChunk(cChunks[i]) => Len(cChunks[i].content) <= cMax

\* C3: every chunk has content length >= 20 unless it is the single fallback
\* chunk of a document that produced no other chunk.
C3_ContentAtLeast20 ==
    pc = "chunked" =>
        \A i \in 1..Len(cChunks) :
            \/ Len(cChunks[i].content) >= 20
            \/ cFallback /\ Len(cChunks) = 1

\* C4: a normalized text with a non-whitespace character, chunked with
\* maxChunkSize >= 1, gives at least one chunk.
C4_AtLeastOneChunk ==
    (pc = "chunked" /\ Trim(cText) # <<>> /\ cMax >= 1) => Len(cChunks) >= 1

\* A text whose segments were all skipped has been chunked: the fallback
\* chunk is the only chunk.
C4_Witness ==
    /\ pc = "chunked"
    /\ Trim(cText) # <<>>
    /\ cMax >= 1
    /\ cFallback
    /\ Len(cChunks) = 1

\* C22: when segmentation and splitting produce no chunk for a text with
\* non-whitespace content, the result is exactly one chunk with section
\* "General", chunkIndex 0, startChar 0 and, as content, the first
\* min(length, 2 x maxChunkSize) characters of the trimmed text.
C22_FallbackChunk ==
    (pc = "chunked" /\ LoopChunks(cText, cMax, cOverlap) = <<>> /\ Trim(cText) # <<>>) =>
        /\ Len(cChunks) = 1
        /\ cChunks[1].section = Chars("General")
        /\ cChunks[1].chunkIndex = 0
        /\ cChunks[1].startChar = 0
        /\ cChunks[1].content =
               SubSeq(Trim(cText), 1, Min(Len(Trim(cText)), 2 * cMax))

\* The loop pushed nothing for a text longer than twice maxChunkSize: the
\* fallback chunk holds a proper prefix of the trimmed text.
C22_Witness ==
    /\ pc = "chunked"
    /\ LoopChunks(cText, cMax, cOverlap) = <<>>
    /\ Len(Trim(cText)) > 2 * cMax
    /\ Len(cChunks) = 1
    /\ Len(cChunks[1].content) = 2 * cMax

\* The loop pushed nothing for a text shorter than twice maxChunkSize: the
\* fallback chunk holds the whole trimmed text.
C22_WitnessWhole ==
    /\ pc = "chunked"
    /\ LoopChunks(cText, cMax, cOverlap) = <<>>
    /\ Trim(cText) # <<>>
    /\ Len(Trim(cText)) < 2 * cMax
    /\ cChunks[1].content = Trim(cText)

Contains(s, sub) == LastIndexOf(s, sub) >= 0

LabelledContaining(chunks, section, sub) ==
    \E n \in 1..Len(chunks) : chunks[n].section = section /\ Contains(chunks[n].content, sub)

\* C11: chunking the end-to-end text with maxChunkSize 1500 returns at least
\* two chunks, among them one labelled "Actions Required" that contains
\* "Fix A" and one labelled "Strengths" that contains "Good config".
C11_EndToEndLabels ==
    (pc = "chunked" /\ cText = EndToEndText /\ cMax = DefaultMaxChunkSize) =>
        /\ Len(cChunks) >= 2
        /\ LabelledContaining(cChunks, Chars("Actions Required"), Chars("Fix A"))
        /\ LabelledContaining(cChunks, Chars("Strengths"), Chars("Good config"))

\* C14: every chunk labelled "<Section> - Table Data" has a content of at
\* most 2 x maxChunkSize characters.
C14_TableChunkWithinTwiceMax ==
    pc = "chunked" =>
        \A n \in 1..Len(cChunks) :
            IsTableChunk(cChunks[n]) => Len(cChunks[n].content) <= 2 * cMax

\* C15: every chunk returned by createHealthCheckChunks, from whatever
\* branch, has startChar < endChar.
C15_StartBeforeEnd ==
    pc = "chunked" =>
        \A n \in 1..Len(cChunks) : cChunks[n].startChar < cChunks[n].endChar

\* A chunking that returned the chunk of the text before a table and, after
\* it, the chunk of the table body.
C15_Witness ==
    /\ pc = "chunked"
    /\ \E n \in 1..(Len(cChunks) - 1) :
           /\ ~IsTableChunk(cChunks[n])
           /\ Len(cChunks[n].content) > MinBeforeTableLength
           /\ IsTableChunk(cChunks[n + 1])
           /\ cChunks[n + 1].startChar > 0
    /\ \A n \in 1..Len(cChunks) : cChunks[n].startChar < cChunks[n].endChar

\* A chunking that returned a table body cut in two.
C15_WitnessSplitTable ==
    /\ pc = "chunked"
    /\ Cardinality({n \in 1..Len(cChunks) : IsTableChunk(cChunks[n])}) >= 2
    /\ \A n \in 1..Len(cChunks) : cChunks[n].startChar < cChunks[n].endChar

\* A chunking that returned only the fallback chunk.
C15_WitnessFallback ==
    /\ pc = "chunked"
    /\ cFallback
    /\ Len(cChunks) = 1
    /\ cChunks[1].startChar = 0
    /\ cChunks[1].endChar > 0


\* C19: for every chunk emitted from a segment that fits in maxChunkSize,
\* the characters of the text at [startChar, endChar) are the chunk's
\* content.  Where the whole text fits in maxChunkSize and the fallback
\* chunk was not pushed, every chunk comes from such a segment.
C19_OffsetsLocateContent ==
    (pc = "chunked" /\ Len(cText) <= cMax /\ ~cFallback) =>
        \A n \in 1..Len(cChunks) :
            Substring(cText, cChunks[n].startChar, cChunks[n].endChar) = cChunks[n].content

----------------------------------------------------------------------------
(* Specification SpecSplit: the loop of splitLargeSection, one iteration   *)
(* per step, called with every segment of at most MaxSegLen characters.    *)

SplitAlphabet == {"a", "\n", ".", " "}
SplitSizes == {1, 2, 4}
SplitOverlaps == {0, 1, 4, 6}

\* Segments with break points of two kinds in one window of BreakSize
\* characters, the less preferred kind after the more preferred one and
\* before it.
BreakSize == 7
BreakTexts ==
    {Chars("aaa. a\naa"), Chars("aaa\na. aa"), Chars("aaa. , aa"), Chars("aaa\n\n, aa"), Chars("aaa, \n\naa")}

SplitInputs ==
    (SeqsUpTo(SplitAlphabet, MaxSegLen) \X SplitSizes) \cup (BreakTexts \X {BreakSize})

\* A segment of letters, longer than a window of FragmentSize characters.
FragmentSize == 20
FragmentText == [i \in 1..(FragmentSize + 5) |-> "a"]

\* A segment with one sentence end, which is the last break point of its
\* first window of WideSize characters and of the window that starts
\* WideOverlap characters before the end of the first chunk.
WideSize == 30
WideOverlap == 25
WideText ==
    [i \in 1..(WideSize - 3) |-> "a"] \o <<".", " ">> \o [i \in 1..(WideSize - 19) |-> "a"]

\* The calls: <<text, maxSize, overlap>>.
SplitCalls ==
    {<<input[1], input[2], overlap>> : input \in SplitInputs, overlap \in SplitOverlaps}
        \cup {<<FragmentText, FragmentSize, 0>>, <<WideText, WideSize, WideOverlap>>}

InitSplit ==
    /\ PageIdle
    /\ SummaryIdle
    /\ ThreadIdle
    /\ ChatIdle
    /\ GenerateIdle
    /\ UploadIdle
    /\ StoreIdle
    /\ IdentifyIdle
    /\ pc = "idle"
    /\ SplitIdle
    /\ NormIdle
    /\ ChunkIdle
    /\ MetricsIdle

\* The call: let start = 0; let chunksCreated = 0;
SplitCall ==
    /\ pc = "idle"
    /\ \E call \in SplitCalls : sText' = call[1] /\ sMax' = call[2] /\ sOverlap' = call[3]
    /\ sStart' = 0
    /\ sChunks' = <<>>
    /\ pc' = "loop"
    /\ UNCHANGED <<normVars, chunkVars, metricVars, identVars, storeVars, uploadVars, genVars, chatVars, threadVars, summaryVars, pageVars>>

\* while (start < text.length) { ... }
SplitIterate ==
    /\ pc = "loop"
    /\ sStart < Len(sText)
    /\ LET it == SplitIteration(sText, Chars("General"), sMax, sOverlap, 0, 0,
                                sStart, Len(sChunks))
       IN  /\ sChunks' = sChunks \o it.pushed
           /\ sStart' = it.start
    /\ UNCHANGED <<pc, sText, sMax, sOverlap, normVars, chunkVars, metricVars, identVars, storeVars, uploadVars, genVars, chatVars, threadVars, summaryVars, pageVars>>

\* return chunksCreated
SplitReturn ==
    /\ pc = "loop"
    /\ ~(sStart < Len(sText))
    /\ pc' = "returned"
    /\ UNCHANGED <<splitVars, normVars, chunkVars, metricVars, identVars, storeVars, uploadVars, genVars, chatVars, threadVars, summaryVars, pageVars>>

NextSplit == SplitCall \/ SplitIterate \/ SplitReturn

SpecSplit == InitSplit /\ [][NextSplit]_vars

\* C10: for every segment, maxChunkSize >= 1 and overlap >= 0, the window
\* start strictly increases on every loop iteration, and the loop terminates:
\* an iteration runs only while start is below the segment length, and it
\* leaves start greater than before and at most the segment length, so there
\* are at most as many iterations as the segment has characters.
C10_ForwardProgress ==
    [][SplitIterate => (sStart' > sStart /\ sStart' <= Len(sText))]_vars

\* The loop has run with an overlap that reaches back to the window start or
\* before it, and has returned.
C10_Witness ==
    pc = "returned" /\ sOverlap >= sMax /\ sStart >= Len(sText) /\ Len(sText) > sMax


\* The kinds of break point, most preferred first: paragraph break, sentence
\* end, line break, comma-space.
BreakKinds == <<<<"\n", "\n">>, <<".", " ">>, <<"\n">>, <<",", " ">>>>

\* The kinds with a break point in the last two-thirds of the window that
\* starts at sStart.
KindsPresent ==
    {k \in 1..Len(BreakKinds) :
        LastIndexOf(Substring(sText, sStart, sStart + sMax), BreakKinds[k]) * 3 > sMax}

\* The offsets in the segment of the cuts at the last break point of kind k
\* of the window: after its first character, up to after its last.
CutsAtKind(k) ==
    {sStart + LastIndexOf(Substring(sText, sStart, sStart + sMax), BreakKinds[k]) + n :
        n \in 1..Len(BreakKinds[k])}

\* C18: in an iteration whose window ends before the segment end and has
\* break points of several kinds in its last two-thirds, the cut is at the
\* break point of the most preferred kind present.  With overlap 0 the next
\* start is the cut.
C18_CutAtPreferredBreak ==
    [][(SplitIterate /\ sOverlap = 0 /\ sStart + sMax < Len(sText) /\ Cardinality(KindsPresent) >= 2)
          => sStart' \in CutsAtKind(SetMin(KindsPresent))]_vars


\* C21: in the generic split a fragment is discarded only when its trimmed
\* length is below 20: a fragment of trimmed length 20 or more is emitted.
\* With overlap 0 the fragment of an iteration runs from its start to the
\* next start.
C21_FragmentOfTwentyEmitted ==
    [][(SplitIterate /\ sOverlap = 0
           /\ Len(Trim(Substring(sText, sStart, sStart'))) >= MinSectionLength)
          => Len(sChunks') = Len(sChunks) + 1]_vars

\* C28: from one emitted chunk to the next endChar strictly increases, for
\* maxSize >= 1 and 0 <= overlap < maxSize.
C28_EndCharIncreasing ==
    (sMax >= 1 /\ sOverlap >= 0 /\ sOverlap < sMax) =>
        \A n \in 1..(Len(sChunks) - 1) : sChunks[n].endChar < sChunks[n + 1].endChar

----------------------------------------------------------------------------
(* Specification SpecMetrics: extractHealthCheckMetrics in its three       *)
(* steps, on first pages whose combined numeral has at most MaxDigits      *)
(* digits and on every report of at most MaxSections counted sections.     *)

DigitAlphabet == {"2", "3", "7"}
ZeroNumerals == {Chars("0"), Chars("00"), Chars("039")}
Numerals == (SeqsUpTo(DigitAlphabet, MaxDigits) \ {<<>>}) \cup ZeroNumerals
TotalMatches == {NoMatch, Chars("0"), Chars("25"), Chars("39"), Chars("75")}
PerformedMatches == {NoMatch, Chars("0"), Chars("1"), Chars("50")}
SkippedMatches == {NoMatch, Chars("2")}
ItemCounts == {0, 2}
SectionKinds == [header : Categories, ownLine : BOOLEAN, itemCount : ItemCounts]
Docs == SeqsUpTo(SectionKinds, MaxSections)

NoMetrics ==
    [totalChecks |-> Undefined, performedChecks |-> Undefined,
     skippedChecks |-> Undefined, actionsRequired |-> Undefined,
     areasOfOpportunities |-> Undefined, strengths |-> Undefined]

\* The separate probes run only when the combined numeral is not found.
InitMetrics ==
    /\ PageIdle
    /\ SummaryIdle
    /\ ThreadIdle
    /\ ChatIdle
    /\ GenerateIdle
    /\ UploadIdle
    /\ StoreIdle
    /\ IdentifyIdle
    /\ pc = "page"
    /\ mMatches \in
           [totalChecksMatch : TotalMatches, checksMatch : Numerals,
            performedMatch : {NoMatch}, skippedMatch : {NoMatch}]
           \cup [totalChecksMatch : TotalMatches, checksMatch : {NoMatch},
                 performedMatch : PerformedMatches, skippedMatch : SkippedMatches]
    /\ mCounts = CountBreakdownOf(<<>>)
    /\ metrics = NoMetrics
    /\ NormIdle
    /\ ChunkIdle
    /\ SplitIdle

\* Total, performed and skipped checks from the first page.
ExtractChecks ==
    /\ pc = "page"
    /\ LET totalChecks == TotalChecks(mMatches.totalChecksMatch)
           checks == PerformedSkipped(mMatches.checksMatch, mMatches.performedMatch,
                                      mMatches.skippedMatch, totalChecks)
       IN  metrics' = [metrics EXCEPT !.totalChecks = totalChecks,
                                      !.performedChecks = checks.performedChecks,
                                      !.skippedChecks = checks.skippedChecks]
    /\ pc' = "checks"
    /\ UNCHANGED <<mMatches, mCounts, normVars, chunkVars, splitVars, identVars, storeVars, uploadVars, genVars, chatVars, threadVars, summaryVars, pageVars>>

\* The breakdown counted from the sections of the report.
CountBreakdown ==
    /\ pc = "checks"
    /\ \E doc \in Docs :
           LET counts == CountBreakdownOf(doc)
           IN  /\ mCounts' = counts
               /\ metrics' =
                      [metrics EXCEPT
                          !.actionsRequired =
                              CountedValue(counts.actionsRequiredSections,
                                           counts.actionsCount),
                          !.areasOfOpportunities =
                              CountedValue(counts.opportunitiesSections,
                                           counts.oppsCount),
                          !.strengths =
                              CountedValue(counts.strengthsSections,
                                           counts.strengthsCount)]
    /\ pc' = "counted"
    /\ UNCHANGED <<mMatches, normVars, chunkVars, splitVars, identVars, storeVars, uploadVars, genVars, chatVars, threadVars, summaryVars, pageVars>>

\* The estimate, and the return.
EstimateBreakdown ==
    /\ pc = "counted"
    /\ metrics' = Estimated(metrics)
    /\ pc' = "done"
    /\ UNCHANGED <<mMatches, mCounts, normVars, chunkVars, splitVars, identVars, storeVars, uploadVars, genVars, chatVars, threadVars, summaryVars, pageVars>>

NextMetrics == ExtractChecks \/ CountBreakdown \/ EstimateBreakdown

SpecMetrics == InitMetrics /\ [][NextMetrics]_vars

\* The sum of a prefix and suffix of the numeral at split position i.
SplitSum(combinedNum, i) ==
    DecimalValue(SubSeq(combinedNum, 1, i))
        + DecimalValue(SubSeq(combinedNum, i + 1, Len(combinedNum)))

\* C7: when the combined numeral is found, totalChecks is known and some
\* split position i in 1..len-1 gives prefix + suffix = totalChecks, then
\* performedChecks and skippedChecks are such a split, so they sum to
\* totalChecks; the numeral 372 with totalChecks 39 gives 37 and 2.
C7_ExactSplitSumsToTotal ==
    LET c == mMatches.checksMatch
        total == metrics.totalChecks
    IN  /\ (/\ pc # "page"
            /\ c # NoMatch
            /\ total.kind = "number"
            /\ \E i \in 1..(Len(c) - 1) : SplitSum(c, i) = total.val)
           => /\ metrics.performedChecks.kind = "number"
              /\ metrics.skippedChecks.kind = "number"
              /\ metrics.performedChecks.val + metrics.skippedChecks.val = total.val
              /\ \E i \in 1..(Len(c) - 1) :
                     /\ metrics.performedChecks.val = DecimalValue(SubSeq(c, 1, i))
                     /\ metrics.skippedChecks.val =
                            DecimalValue(SubSeq(c, i + 1, Len(c)))
        /\ (pc # "page" /\ c = <<"3", "7", "2">>
                /\ mMatches.totalChecksMatch = <<"3", "9">>)
           => metrics.performedChecks = Num(37) /\ metrics.skippedChecks = Num(2)

\* The numeral 372 has been split against the total 39.
C7_Witness ==
    /\ pc = "checks"
    /\ mMatches.checksMatch = <<"3", "7", "2">>
    /\ metrics.totalChecks = Num(39)
    /\ metrics.performedChecks = Num(37)
    /\ metrics.skippedChecks = Num(2)

\* The breakdown as the counting step left it.
CountedSum ==
    Max(mCounts.actionsRequiredSections, mCounts.actionsCount)
        + Max(mCounts.opportunitiesSections, mCounts.oppsCount)
        + Max(mCounts.strengthsSections, mCounts.strengthsCount)

\* C8: when performedChecks p is known and the counted breakdown sum exceeds
\* 2 x p, the three counted values are discarded: the returned strengths,
\* areasOfOpportunities and actionsRequired are round(0.40p), round(0.38p)
\* and round(0.22p).
C8_ImplausibleCountsReplaced ==
    (/\ pc = "done"
     /\ metrics.performedChecks.kind = "number"
     /\ CountedSum > 2 * metrics.performedChecks.val)
    => LET p == metrics.performedChecks.val
       IN  /\ metrics.strengths = Num((40 * p + 50) \div 100)
           /\ metrics.areasOfOpportunities = Num((38 * p + 50) \div 100)
           /\ metrics.actionsRequired = Num((22 * p + 50) \div 100)

SummingSplits ==
    {i \in 1..(Len(mMatches.checksMatch) - 1) :
        SplitSum(mMatches.checksMatch, i) = metrics.totalChecks.val}

\* C20: when several split positions of the combined numeral give parts
\* summing to totalChecks, performedChecks and skippedChecks are the parts
\* at the smallest such position.
C20_SmallestSplitUsed ==
    (pc # "page" /\ mMatches.checksMatch # NoMatch /\ Truthy(metrics.totalChecks)
         /\ Cardinality(SummingSplits) >= 2) =>
        \E i \in SummingSplits :
            /\ \A j \in SummingSplits : i <= j
            /\ metrics.performedChecks = ParseInt(Substring(mMatches.checksMatch, 0, i))
            /\ metrics.skippedChecks = ParseInt(Substring(mMatches.checksMatch, i, Len(mMatches.checksMatch)))

\* "223" with a total of 25 has been split as 2 + 23, not as 22 + 3.
C20_Witness ==
    /\ pc = "done"
    /\ mMatches.checksMatch = Chars("223")
    /\ metrics.totalChecks = Num(25)
    /\ SummingSplits = {1, 2}
    /\ metrics.performedChecks = Num(2)
    /\ metrics.skippedChecks = Num(23)


\* C27: whenever extractHealthCheckMetrics sets performedChecks or
\* skippedChecks, the value is a non-negative integer, never NaN, with
\* totalChecks known or unknown.
C27_ChecksAreNaturals ==
    \A value \in {metrics.performedChecks, metrics.skippedChecks} :
        value # Undefined => (value.kind = "number" /\ value.val \in Nat)

----------------------------------------------------------------------------
(* Specification SpecIdentify: identifyHealthCheckSection applied to every *)
(* snippet made of at most MaxWords words, among them a filler that fills  *)
(* the window of SectionWindow characters but for a few.                   *)

MaxWords == 3
FillerLength == 296

Filler == [i \in 1..FillerLength |-> "x"]

SnippetWords ==
    {Chars("Content Modelling"), Chars("Entries"), Chars("ASSETS"), Chars("Security"),
     Chars("plain words"), Filler}

RECURSIVE JoinWords(_)
JoinWords(ws) ==
    IF ws = <<>> THEN <<>>
    ELSE IF Len(ws) = 1 THEN ws[1]
    ELSE ws[1] \o <<" ">> \o JoinWords(Tail(ws))

Snippets == {JoinWords(ws) : ws \in SeqsUpTo(SnippetWords, MaxWords)}

InitIdentify ==
    /\ PageIdle
    /\ SummaryIdle
    /\ ThreadIdle
    /\ ChatIdle
    /\ GenerateIdle
    /\ UploadIdle
    /\ StoreIdle
    /\ pc = "snippet"
    /\ iText \in Snippets
    /\ iSection = <<>>
    /\ NormIdle
    /\ ChunkIdle
    /\ SplitIdle
    /\ MetricsIdle

Identify ==
    /\ pc = "snippet"
    /\ iSection' = identifyHealthCheckSection(iText)
    /\ pc' = "identified"
    /\ UNCHANGED <<iText, normVars, chunkVars, splitVars, metricVars, storeVars, uploadVars, genVars, chatVars, threadVars, summaryVars, pageVars>>

NextIdentify == Identify

SpecIdentify == InitIdentify /\ [][NextIdentify]_vars

\* Row r of the table has a pattern that matches somewhere in textLower.
RowMatches(r, textLower) ==
    \E p \in 1..Len(sectionPatterns[r].patterns) :
        Test(textLower, sectionPatterns[r].patterns[p], TRUE)

RowsMatching(text) ==
    {r \in 1..Len(sectionPatterns) :
        RowMatches(r, Substring(ToLowerCase(text), 0, SectionWindow))}

RowOf(section) == CHOOSE r \in 1..Len(sectionPatterns) : sectionPatterns[r].section = section

LabelOfFirstRow(rows, label) ==
    IF rows = {} THEN label = Chars("General")
    ELSE \E r \in rows : (\A q \in rows : r <= q) /\ label = sectionPatterns[r].section

\* C12: the label returned is that of the first row, in declaration order,
\* with a pattern matching within the first 300 lower-cased characters of the
\* snippet, and "General" when no row has one; a snippet matching both a
\* "Content Modelling" pattern and an "Entries" pattern is labelled
\* "Content Modelling".
C12_FirstLabelInOrder ==
    pc = "identified" =>
        /\ LabelOfFirstRow(RowsMatching(iText), iSection)
        /\ ({RowOf(Chars("Content Modelling")), RowOf(Chars("Entries"))} \subseteq RowsMatching(iText)
                => iSection = Chars("Content Modelling"))

\* A snippet that begins with an "Entries" pattern and also holds a
\* "Content Modelling" pattern has been labelled.
C12_Witness ==
    /\ pc = "identified"
    /\ {RowOf(Chars("Content Modelling")), RowOf(Chars("Entries"))} \subseteq RowsMatching(iText)
    /\ SubSeq(iText, 1, 7) = Chars("Entries")
    /\ iSection = Chars("Content Modelling")

\* A snippet whose only pattern begins before the end of the window and ends
\* after it has been labelled "General".
C12_WitnessWindow ==
    /\ pc = "identified"
    /\ iText = JoinWords(<<Filler, Chars("Entries")>>)
    /\ iSection = Chars("General")

----------------------------------------------------------------------------
(* ReportStore (lib/reportStore.ts): a Map from session id to stored       *)
(* report.  A JavaScript Map keeps its entries in the order in which their *)
(* keys were first inserted; it is a sequence of reports with distinct     *)
(* session ids, oldest key first.  A session id is a string.               *)

maxSessions == 10

StoredReport(sessionId, filename, rawText) ==
    [sessionId |-> sessionId, filename |-> filename, rawText |-> rawText]

\* reports.size
MapSize(entries) == Len(entries)

\* reports.has(sessionId)
MapHas(entries, sessionId) == \E i \in 1..Len(entries) : entries[i].sessionId = sessionId

\* reports.get(sessionId)
MapGet(entries, sessionId) ==
    IF MapHas(entries, sessionId)
    THEN entries[CHOOSE i \in 1..Len(entries) : entries[i].sessionId = sessionId]
    ELSE Undefined

\* reports.delete(sessionId)
MapDelete(entries, sessionId) == SelectSeq(entries, LAMBDA r : r.sessionId # sessionId)

\* reports.set(sessionId, report): a key already held keeps its place.
MapSet(entries, report) ==
    IF MapHas(entries, report.sessionId)
    THEN [i \in 1..Len(entries) |->
             IF entries[i].sessionId = report.sessionId THEN report ELSE entries[i]]
    ELSE Append(entries, report)

\* reports.keys().next().value, read where the map is not empty.
OldestKey(entries) == entries[1].sessionId

\* if (oldestKey): of the strings, the empty one is falsy.
KeyTruthy(key) == key # ""

\* The clean-up that deletes the oldest key whatever it is.
CleanedUpAlways(entries) ==
    IF MapSize(entries) >= maxSessions THEN Tail(entries) ELSE entries

\* The clean-up at the head of store.
CleanedUp(entries) ==
    IF MapSize(entries) >= maxSessions /\ KeyTruthy(OldestKey(entries))
    THEN MapDelete(entries, OldestKey(entries))
    ELSE entries

store(entries, sessionId, filename, rawText) ==
    MapSet(CleanedUp(entries), StoredReport(sessionId, filename, rawText))

----------------------------------------------------------------------------
(* extractHealthCheckMetrics as one function of the first page and of the  *)
(* report below it, and extractMetricsWithVision as a function of the      *)
(* reply of Gemini.  A value of JavaScript other than a number is a record *)
(* with its kind; an object is the set of its <<key, value>> pairs.        *)

WithChecks(m, totalChecks, checks) ==
    [m EXCEPT !.totalChecks = totalChecks, !.performedChecks = checks.performedChecks, !.skippedChecks = checks.skippedChecks]

ChecksStep(page, totalChecks) ==
    WithChecks(NoMetrics, totalChecks, PerformedSkipped(page.checksMatch, page.performedMatch, page.skippedMatch, totalChecks))

WithBreakdown(m, counts) ==
    [m EXCEPT !.actionsRequired = CountedValue(counts.actionsRequiredSections, counts.actionsCount),
              !.areasOfOpportunities = CountedValue(counts.opportunitiesSections, counts.oppsCount),
              !.strengths = CountedValue(counts.strengthsSections, counts.strengthsCount)]

extractHealthCheckMetrics(page, doc) ==
    Estimated(WithBreakdown(ChecksStep(page, TotalChecks(page.totalChecksMatch)), CountBreakdownOf(doc)))

JsString(str) == [kind |-> "string", val |-> str]
JsObject(pairs) == [kind |-> "object", val |-> pairs]
EmptyObject == JsObject({})
SyntaxError == [kind |-> "SyntaxError", val |-> 0]

\* The object that the metrics m are: a property for every field assigned.
MetricsObject(m) == JsObject({<<f, m[f]>> : f \in {g \in DOMAIN m : m[g] # Undefined}})

\* !value
JsFalsy(value) ==
    \/ value.kind \in {"undefined", "null", "NaN"}
    \/ value.kind = "string" /\ value.val = <<>>
    \/ value.kind = "number" /\ value.val = 0

\* Object.keys(value).length, of a value that is not null or undefined
KeysLength(value) ==
    IF value.kind = "object" THEN Cardinality({pair[1] : pair \in value.val})
    ELSE IF value.kind = "string" THEN Len(value.val)
    ELSE 0

\* extractMetricsWithVision on the reply of gemini.analyzeImage: reply.text
\* is the text, reply.json what JSON.parse makes of the text from its first
\* "{" to its last "}" (of the whole text when it has no such part).  An
\* error thrown by JSON.parse is caught and {} returned.
extractMetricsWithVision(reply) ==
    IF ~reply.success \/ reply.text = <<>> THEN EmptyObject
    ELSE IF reply.json = SyntaxError THEN EmptyObject
    ELSE reply.json

----------------------------------------------------------------------------
(* POST /api/upload-report (app/api/upload-report/route.ts) *)

ALLOWED_TYPES ==
    {Chars("application/pdf"),
     Chars("application/vnd.openxmlformats-officedocument.wordprocessingml.document"),
     Chars("application/msword"), Chars("text/plain"), Chars("application/x-pdf"),
     Chars("application/octet-stream")}

MAX_FILE_SIZE == 10485760

ALLOWED_EXTENSIONS == {Chars(".pdf"), Chars(".doc"), Chars(".docx"), Chars(".txt")}

getFileExtension(filename) ==
    IF LastIndexOf(filename, <<".">>) # -1
    THEN ToLowerCase(Substring(filename, LastIndexOf(filename, <<".">>), Len(filename)))
    ELSE <<>>

isAllowedFile(filename, mimeType) ==
    getFileExtension(filename) \in ALLOWED_EXTENSIONS \/ mimeType \in ALLOWED_TYPES

getEffectiveFileType(filename, mimeType) ==
    CASE getFileExtension(filename) = Chars(".pdf") -> Chars("application/pdf")
      [] getFileExtension(filename) = Chars(".docx") ->
             Chars("application/vnd.openxmlformats-officedocument.wordprocessingml.document")
      [] getFileExtension(filename) = Chars(".doc") -> Chars("application/msword")
      [] getFileExtension(filename) = Chars(".txt") -> Chars("text/plain")
      [] OTHER -> mimeType

Response(status, success, sessionId, responseMetrics) ==
    [status |-> status, success |-> success, sessionId |-> sessionId, metrics |-> responseMetrics]

\* The vision metrics completed, key by key, by those of the text extraction.
VisionMergedWithText(vision, textMetrics) ==
    IF JsFalsy(vision) \/ vision.kind # "object" THEN textMetrics
    ELSE JsObject(vision.val \cup {pair \in textMetrics.val : \A held \in vision.val : held[1] # pair[1]})

\* The metrics of a PDF whose vision extraction returned the value vision, on
\* the metrics that the text extraction gives.
VisionOrText(vision, textMetrics) ==
    IF JsFalsy(vision) \/ KeysLength(vision) = 0 THEN textMetrics ELSE vision

\* The metrics that the handler puts in its response.
UploadMetrics(effectiveFileType, rejects, reply, textMetrics) ==
    IF effectiveFileType = Chars("application/pdf")
    THEN IF rejects THEN textMetrics ELSE VisionOrText(extractMetricsWithVision(reply), textMetrics)
    ELSE textMetrics

\* The status of the response to the request: 200 when the report is stored.
UploadStatus(request) ==
    IF ~request.hasFile THEN 400
    ELSE IF ~isAllowedFile(request.name, request.type) THEN 400
    ELSE IF request.size > MAX_FILE_SIZE THEN 400
    ELSE IF request.parse.kind = "error" THEN 422
    ELSE IF request.parse.kind = "blank" THEN 422
    ELSE 200

TextMetricsOf(request) ==
    MetricsObject(extractHealthCheckMetrics(request.parse.page, request.parse.doc))

UploadResponse(request, sessionId) ==
    IF UploadStatus(request) # 200 THEN Response(UploadStatus(request), FALSE, "", Undefined)
    ELSE Response(200, TRUE, sessionId, UploadMetrics(getEffectiveFileType(request.name, request.type), request.rejects, request.reply, TextMetricsOf(request)))

----------------------------------------------------------------------------
(* Specification SpecUpload: one request to POST /api/upload-report, on an *)
(* empty store and on a store that holds maxSessions reports.              *)

FileNames ==
    {Chars("report.pdf"), Chars("REPORT.PDF"), Chars("notes.txt"), Chars("report"), Chars("tool.exe")}

MimeTypes ==
    {Chars("application/pdf"), Chars("application/x-pdf"), Chars("text/plain"), Chars("image/png")}

FileSizes == {1024, MAX_FILE_SIZE, MAX_FILE_SIZE + 1}

NoPage ==
    [totalChecksMatch |-> NoMatch, checksMatch |-> NoMatch, performedMatch |-> NoMatch, skippedMatch |-> NoMatch]

ParsedPages == {NoPage, [NoPage EXCEPT !.totalChecksMatch = Chars("39"), !.checksMatch = Chars("372")]}

ParsedDocs == {<<>>, <<[header |-> "strengths", ownLine |-> TRUE, itemCount |-> 2]>>}

ParseOutcomes ==
    {[kind |-> "error", page |-> NoPage, doc |-> <<>>], [kind |-> "blank", page |-> NoPage, doc |-> <<>>]}
        \cup [kind : {"text"}, page : ParsedPages, doc : ParsedDocs]

VisionMetrics == JsObject({<<"totalChecks", Num(41)>>, <<"strengths", Num(7)>>})

GeminiReplies ==
    {[success |-> FALSE, text |-> <<>>, json |-> SyntaxError],
     [success |-> TRUE, text |-> <<>>, json |-> SyntaxError],
     [success |-> TRUE, text |-> Chars("Sorry, no."), json |-> SyntaxError],
     [success |-> TRUE, text |-> Chars("{}"), json |-> EmptyObject],
     [success |-> TRUE, text |-> Chars("{\"totalChecks\": 41, \"strengths\": 7}"), json |-> VisionMetrics],
     [success |-> TRUE, text |-> Chars("null"), json |-> JsNull],
     [success |-> TRUE, text |-> Chars("\"n/a\""), json |-> JsString(Chars("n/a"))]}

NoFileRequest ==
    [hasFile |-> FALSE, name |-> <<>>, type |-> <<>>, size |-> 0,
     parse |-> [kind |-> "error", page |-> NoPage, doc |-> <<>>],
     rejects |-> FALSE, reply |-> [success |-> FALSE, text |-> <<>>, json |-> SyntaxError]]

\* rejects: the awaited call of extractMetricsWithVision ends in an error.
Requests ==
    {NoFileRequest} \cup
    [hasFile : {TRUE}, name : FileNames, type : MimeTypes, size : FileSizes,
     parse : ParseOutcomes, rejects : BOOLEAN, reply : GeminiReplies]

SessionNames == <<"s1", "s2", "s3", "s4", "s5", "s6", "s7", "s8", "s9", "s10", "s11">>

\* What uuidv4() returns.
Uuids == {"u1", "u2"}

FullStore ==
    [i \in 1..maxSessions |->
        StoredReport(SessionNames[i], Chars("old.pdf"), [kind |-> "text", page |-> NoPage, doc |-> <<>>])]

InitUpload ==
    /\ PageIdle
    /\ SummaryIdle
    /\ ThreadIdle
    /\ ChatIdle
    /\ GenerateIdle
    /\ pc = "request"
    /\ uRequest \in Requests
    /\ uResponse = Undefined
    /\ reports \in {<<>>, FullStore}
    /\ sReturn = Undefined
    /\ sDeletes = 0
    /\ NormIdle
    /\ ChunkIdle
    /\ SplitIdle
    /\ MetricsIdle
    /\ IdentifyIdle

\* The handler, from the request to the response.
Upload ==
    /\ pc = "request"
    /\ \E sessionId \in Uuids :
           /\ ~MapHas(reports, sessionId)
           /\ uResponse' = UploadResponse(uRequest, sessionId)
           /\ reports' = IF UploadStatus(uRequest) = 200
                         THEN store(reports, sessionId, uRequest.name, uRequest.parse)
                         ELSE reports
    /\ pc' = "responded"
    /\ UNCHANGED <<uRequest, sReturn, sDeletes, normVars, chunkVars, splitVars, metricVars, identVars, genVars, chatVars, threadVars, summaryVars, pageVars>>

NextUpload == Upload

SpecUpload == InitUpload /\ [][NextUpload]_vars

IsPdf(request) == getEffectiveFileType(request.name, request.type) = Chars("application/pdf")

NonEmptyObject(value) == value.kind = "object" /\ value.val # {}

\* C13: in a successful upload of a PDF, when the vision extraction returns a
\* non-empty object the response metrics are that object; when it returns
\* an empty object or no value, or ends in an error, they are the metrics
\* of the text extraction on the parsed text; for a file that is not a PDF
\* they are always the metrics of the text extraction.
C13_VisionOrTextMetrics ==
    (pc = "responded" /\ uResponse.status = 200) =>
        /\ (IsPdf(uRequest) /\ ~uRequest.rejects
                /\ NonEmptyObject(extractMetricsWithVision(uRequest.reply)))
               => uResponse.metrics = extractMetricsWithVision(uRequest.reply)
        /\ (IsPdf(uRequest)
                /\ (\/ uRequest.rejects
                    \/ extractMetricsWithVision(uRequest.reply) = EmptyObject
                    \/ extractMetricsWithVision(uRequest.reply).kind \in {"null", "undefined"}))
               => uResponse.metrics = TextMetricsOf(uRequest)
        /\ ~IsPdf(uRequest) => uResponse.metrics = TextMetricsOf(uRequest)

\* A PDF whose text extraction gives metrics and whose vision extraction
\* returned a non-empty object with other metrics has been answered.
C13_Witness ==
    /\ pc = "responded"
    /\ uResponse.status = 200
    /\ IsPdf(uRequest)
    /\ ~uRequest.rejects
    /\ uRequest.parse.page.checksMatch = Chars("372")
    /\ uResponse.metrics = VisionMetrics
    /\ TextMetricsOf(uRequest) # VisionMetrics

\* A PDF whose vision extraction returned an empty object has been answered
\* with the metrics of the text extraction.
C13_WitnessFallback ==
    /\ pc = "responded"
    /\ uResponse.status = 200
    /\ IsPdf(uRequest)
    /\ ~uRequest.rejects
    /\ extractMetricsWithVision(uRequest.reply) = EmptyObject
    /\ TextMetricsOf(uRequest) # EmptyObject
    /\ uResponse.metrics = TextMetricsOf(uRequest)

----------------------------------------------------------------------------
(* Specification SpecStore: store, get, has and delete called in any order *)
(* on the ReportStore, which starts empty.  The session ids are the empty  *)
(* string and the names of SessionNames; the code treats all names alike,  *)
(* so a call with a name not yet held uses the name after the last of the  *)
(* names held.  At most MaxDeletes calls of delete are made.               *)

MaxDeletes == 1

SessionIds == {""} \cup {SessionNames[i] : i \in 1..Len(SessionNames)}

Held(entries) == {entries[i].sessionId : i \in 1..Len(entries)}

\* A name not held: the one after the last of the names held.
FreshIds(entries) ==
    {SessionNames[i] : i \in {j \in 1..Len(SessionNames) :
        /\ \A k \in j..Len(SessionNames) : SessionNames[k] \notin Held(entries)
        /\ j > 1 => SessionNames[j - 1] \in Held(entries)}}

\* The session ids of the calls made in a state: the empty string, a name
\* not held, and the ids held that were inserted first and last.
CallIds(entries) ==
    {""} \cup FreshIds(entries) \cup
        (IF entries = <<>> THEN {} ELSE {entries[1].sessionId, entries[Len(entries)].sessionId})

StoreFilename == Chars("report.pdf")
StoreText == [kind |-> "text", page |-> NoPage, doc |-> <<>>]

InitStore ==
    /\ PageIdle
    /\ SummaryIdle
    /\ ThreadIdle
    /\ ChatIdle
    /\ GenerateIdle
    /\ pc = "store"
    /\ reports = <<>>
    /\ sReturn = Undefined
    /\ sDeletes = 0
    /\ NormIdle
    /\ ChunkIdle
    /\ SplitIdle
    /\ MetricsIdle
    /\ IdentifyIdle
    /\ UploadIdle

StoreReport(sessionId) ==
    /\ pc = "store"
    /\ reports' = store(reports, sessionId, StoreFilename, StoreText)
    /\ sReturn' = Undefined
    /\ UNCHANGED <<pc, sDeletes, normVars, chunkVars, splitVars, metricVars, identVars, uploadVars, genVars, chatVars, threadVars, summaryVars, pageVars>>

GetReport(sessionId) ==
    /\ pc = "store"
    /\ sReturn' = IF MapHas(reports, sessionId)
                  THEN [kind |-> "report", val |-> MapGet(reports, sessionId)]
                  ELSE Undefined
    /\ UNCHANGED <<pc, reports, sDeletes, normVars, chunkVars, splitVars, metricVars, identVars, uploadVars, genVars, chatVars, threadVars, summaryVars, pageVars>>

HasReport(sessionId) ==
    /\ pc = "store"
    /\ sReturn' = [kind |-> "boolean", val |-> MapHas(reports, sessionId)]
    /\ UNCHANGED <<pc, reports, sDeletes, normVars, chunkVars, splitVars, metricVars, identVars, uploadVars, genVars, chatVars, threadVars, summaryVars, pageVars>>

DeleteReport(sessionId) ==
    /\ pc = "store"
    /\ sDeletes < MaxDeletes
    /\ reports' = MapDelete(reports, sessionId)
    /\ sReturn' = Undefined
    /\ sDeletes' = sDeletes + 1
    /\ UNCHANGED <<pc, normVars, chunkVars, splitVars, metricVars, identVars, uploadVars, genVars, chatVars, threadVars, summaryVars, pageVars>>

NextStore ==
    \E sessionId \in CallIds(reports) :
        \/ StoreReport(sessionId)
        \/ GetReport(sessionId)
        \/ HasReport(sessionId)
        \/ DeleteReport(sessionId)

SpecStore == InitStore /\ [][NextStore]_vars

\* C16: after any sequence of store, get, has and delete calls, with any
\* session ids, the store never holds more than maxSessions reports.
C16_AtMostMaxSessions == MapSize(reports) <= maxSessions

\* The store holds maxSessions reports and a report is stored for sessionId,
\* which it does not hold.
StoreNewWhenFull(sessionId) ==
    /\ MapSize(reports) = maxSessions
    /\ ~MapHas(reports, sessionId)
    /\ StoreReport(sessionId)

\* C17: when the store holds maxSessions reports and a report is stored for
\* a session id not yet held, exactly the session inserted earliest among
\* those held is removed and all others are retained; get and has calls
\* leave the stored reports, and their order of insertion, as they are.
C17_EvictsEarliestInserted ==
    [][/\ \A sessionId \in SessionIds :
              StoreNewWhenFull(sessionId) =>
                  Held(reports') = (Held(reports) \ {reports[1].sessionId}) \cup {sessionId}
       /\ \A sessionId \in SessionIds :
              (GetReport(sessionId) \/ HasReport(sessionId)) => reports' = reports]_vars

\* C29: storing a report for a session id that is already held replaces
\* that session's report and removes no other session's report, whatever
\* the number of sessions held.
C29_ReplaceKeepsOthers ==
    [][\A sessionId \in SessionIds :
           (MapHas(reports, sessionId) /\ StoreReport(sessionId)) =>
               /\ Held(reports') = Held(reports)
               /\ MapGet(reports', sessionId) =
                      StoredReport(sessionId, StoreFilename, StoreText)]_vars

----------------------------------------------------------------------------
(* GeminiClient.generate (src/lib/gemini.ts).                              *)

maxRetries == 2
DefaultWaitTime == 10000
MaxWaitTime == 30000
NetworkRetryDelay == 2000

\* message.includes(sub)
Includes(message, sub) == \E i \in 1..Len(message) : LitAt(message, i, sub, FALSE)

\* const maxAttempts = skipRetry ? 1 : this.maxRetries
maxAttemptsAlways(skipRetry) == maxRetries
maxAttempts(skipRetry) == IF skipRetry THEN 1 ELSE maxRetries

\* The messages of the errors that end the loop at once.
NonRetryableMarks ==
    {Chars("API key"), Chars("Invalid"), Chars("authentication"),
     Chars("Empty response"), Chars("blocked")}

NonRetryable(message) == \E mark \in NonRetryableMarks : Includes(message, mark)

\* parseInt of a header value: NaN unless it starts with digits (the model's
\* header values are all digits or have none).
ParseHeaderInt(value) ==
    IF value # <<>> /\ \A i \in 1..Len(value) : value[i] \in DigitChars
    THEN ParseInt(value) ELSE NaN

\* retryAfter ? parseInt(retryAfter) * 1000 : 10000, capped by
\* Math.min(waitTime, 30000); Math.min of NaN is NaN.
WaitTime(retryAfter) ==
    LET parsed == IF retryAfter = JsNull \/ retryAfter.val = <<>>
                  THEN Num(DefaultWaitTime)
                  ELSE ParseHeaderInt(retryAfter.val)
    IN  IF parsed.kind = "number" THEN Num(Min(parsed.val * 1000, MaxWaitTime)) ELSE NaN

\* A promise that resolved to a GeminiResponse.
GeminiResponse(text, success, error) ==
    [kind |-> "resolved", val |-> [text |-> text, success |-> success, error |-> error]]

RateLimitedMessage(errorMessage) ==
    Chars("Rate limited. Please wait and try again. ") \o errorMessage

\* The decimal numeral of an HTTP status of three digits.
StatusDigits == <<"0", "1", "2", "3", "4", "5", "6", "7", "8", "9">>
StatusText(status) ==
    <<StatusDigits[(status \div 100) + 1], StatusDigits[((status \div 10) % 10) + 1],
      StatusDigits[(status % 10) + 1]>>

\* errorData?.error?.message || 'Unknown error'
ApiErrorMessage(status, errorMessage) ==
    Chars("Gemini API error: ") \o StatusText(status) \o Chars(" - ")
        \o (IF errorMessage = <<>> THEN Chars("Unknown error") ELSE errorMessage)

\* The error of an empty response.
EmptyResponseError(finishReason, blockReason) ==
    IF finishReason = "SAFETY" THEN Chars("Response blocked due to safety settings")
    ELSE IF blockReason # <<>> THEN Chars("Prompt blocked: ") \o blockReason
    ELSE IF finishReason = "MAX_TOKENS"
         THEN Chars("Response too long - try asking a more specific question")
    ELSE Chars("Empty response from Gemini")

\* The response returned for the body of an ok response.
BodyResponse(body) ==
    IF body.finishReason = "MAX_TOKENS" /\ body.text # <<>>
    THEN GeminiResponse(body.text \o Chars("\n\n[Response truncated due to length]"),
                        TRUE, <<>>)
    ELSE IF body.text = <<>>
    THEN GeminiResponse(<<>>, FALSE, EmptyResponseError(body.finishReason, body.blockReason))
    ELSE GeminiResponse(body.text, TRUE, <<>>)

\* The return after the loop: lastError?.message || 'Failed after retries'
FailedResponse(lastError) ==
    GeminiResponse(<<>>, FALSE,
                   IF lastError = JsNull \/ lastError.val = <<>>
                   THEN Chars("Failed after retries") ELSE lastError.val)

\* What one iteration of the loop does once its fetch has settled: sleep and
\* go round again, or return.
Iteration(next, lastError, wait, result) ==
    [next |-> next, lastError |-> lastError, wait |-> wait, result |-> result]

\* The catch block, for an error with this message.
Catch(message, attempt, skipRetry, lastError) ==
    IF NonRetryable(message)
    THEN Iteration("return", JsString(message), Undefined, FailedResponse(JsString(message)))
    ELSE IF attempt < maxAttempts(skipRetry) - 1
    THEN Iteration("sleep", JsString(message), Num(NetworkRetryDelay), Undefined)
    ELSE Iteration("return", JsString(message), Undefined, FailedResponse(JsString(message)))

\* The try block from line 106 on, for a response that is not a 429 with
\* attempts left.  errorData is {} when the body is not JSON.
AfterRateLimit(response, attempt, skipRetry, lastError) ==
    IF response.status # 200
    THEN Iteration("return", lastError, Undefined,
                   GeminiResponse(<<>>, FALSE,
                       ApiErrorMessage(response.status,
                           IF response.jsonError \/ response.status = 429
                           THEN <<>> ELSE response.errorMessage)))
    ELSE IF response.jsonError
    THEN Catch(Chars("Unexpected token < in JSON"), attempt, skipRetry, lastError)
    ELSE Iteration("return", lastError, Undefined, BodyResponse(response))

\* The try block for a response.  The body of a 429 is read at line 86, so
\* the second read at line 107 fails and gives {}.
Try(response, attempt, skipRetry, lastError) ==
    IF response.status = 429
    THEN LET rateLimited ==
                 JsString(RateLimitedMessage(IF response.jsonError THEN <<>>
                                             ELSE response.errorMessage))
         IN  IF attempt < maxAttempts(skipRetry) - 1
             THEN Iteration("sleep", rateLimited, WaitTime(response.retryAfter), Undefined)
             ELSE AfterRateLimit(response, attempt, skipRetry, rateLimited)
    ELSE AfterRateLimit(response, attempt, skipRetry, lastError)

\* error instanceof Error ? error : new Error('Unknown error')
ThrownMessage(outcome) ==
    IF outcome.isError THEN outcome.message ELSE Chars("Unknown error")

Settled(outcome, attempt, skipRetry, lastError) ==
    IF outcome.thrown
    THEN Catch(ThrownMessage(outcome), attempt, skipRetry, lastError)
    ELSE Try(outcome.response, attempt, skipRetry, lastError)

----------------------------------------------------------------------------
(* Specification SpecGenerate: one call of GeminiClient.generate, step by  *)
(* step between its awaits, against every outcome of each fetch.           *)

HttpStatuses == {200, 429, 500}
RetryAfterValues == {JsNull, JsString(Chars("5")), JsString(Chars("60")), JsString(Chars("x"))}
ErrorMessages == {<<>>, Chars("quota"), Chars("overloaded")}
ReplyTexts == {<<>>, Chars("hi"), Chars("Summary")}
FinishReasons == {"STOP", "MAX_TOKENS", "SAFETY"}
BlockReasons == {<<>>, Chars("OTHER")}
ThrownMessages ==
    {<<>>, Chars("fetch failed"), Chars("Invalid URL"), Chars("API key not valid"),
     Chars("request blocked"), Chars("socket hang up"), Chars("authentication failed")}

OkResponses ==
    [status : {200}, retryAfter : {JsNull}, errorMessage : {<<>>}, jsonError : BOOLEAN,
     text : ReplyTexts, finishReason : FinishReasons, blockReason : BlockReasons]
ErrorResponses ==
    [status : HttpStatuses \ {200}, retryAfter : RetryAfterValues,
     errorMessage : ErrorMessages, jsonError : BOOLEAN,
     text : {<<>>}, finishReason : {"STOP"}, blockReason : {<<>>}]
NoResponse ==
    [status |-> 0, retryAfter |-> JsNull, errorMessage |-> <<>>, jsonError |-> FALSE,
     text |-> <<>>, finishReason |-> "STOP", blockReason |-> <<>>]

FetchOutcomes ==
    [thrown : {FALSE}, isError : {TRUE}, message : {<<>>},
     response : OkResponses \cup ErrorResponses]
        \cup [thrown : {TRUE}, isError : {TRUE}, message : ThrownMessages,
              response : {NoResponse}]
        \cup [thrown : {TRUE}, isError : {FALSE}, message : {<<>>}, response : {NoResponse}]

InitGenerate ==
    /\ PageIdle
    /\ SummaryIdle
    /\ ThreadIdle
    /\ ChatIdle
    /\ pc = "generate"
    /\ GenerateIdle
    /\ NormIdle
    /\ ChunkIdle
    /\ SplitIdle
    /\ MetricsIdle
    /\ IdentifyIdle
    /\ StoreIdle
    /\ UploadIdle

\* generate(request, skipRetry) up to the first await: the first fetch.
GenerateCall ==
    /\ pc = "generate"
    /\ gSkipRetry' \in BOOLEAN
    /\ gAttempt' = 0
    /\ gLastError' = JsNull
    /\ gRequests' = 1
    /\ pc' = "fetch"
    /\ UNCHANGED <<gWait, gResult, normVars, chunkVars, splitVars, metricVars, identVars, storeVars, uploadVars, chatVars, threadVars, summaryVars, pageVars>>

\* The fetch settles and the iteration runs to its sleep or to the return.
FetchSettles ==
    /\ pc = "fetch"
    /\ \E outcome \in FetchOutcomes :
           LET iteration == Settled(outcome, gAttempt, gSkipRetry, gLastError)
           IN  /\ gLastError' = iteration.lastError
               /\ gWait' = iteration.wait
               /\ gResult' = iteration.result
               /\ pc' = IF iteration.next = "sleep" THEN "sleep" ELSE "settled"
    /\ UNCHANGED <<gSkipRetry, gAttempt, gRequests, normVars, chunkVars, splitVars, metricVars, identVars, storeVars, uploadVars, chatVars, threadVars, summaryVars, pageVars>>

\* The sleep ends: attempt++, and the next fetch when attempt < maxAttempts,
\* else the return after the loop.
SleepEnds ==
    /\ pc = "sleep"
    /\ gAttempt' = gAttempt + 1
    /\ IF gAttempt + 1 < maxAttempts(gSkipRetry)
       THEN /\ gRequests' = gRequests + 1
            /\ pc' = "fetch"
            /\ UNCHANGED gResult
       ELSE /\ gResult' = FailedResponse(gLastError)
            /\ pc' = "settled"
            /\ UNCHANGED gRequests
    /\ gWait' = Undefined
    /\ UNCHANGED <<gSkipRetry, gLastError, normVars, chunkVars, splitVars, metricVars, identVars, storeVars, uploadVars, chatVars, threadVars, summaryVars, pageVars>>

NextGenerate == GenerateCall \/ FetchSettles \/ SleepEnds

SpecGenerate == InitGenerate /\ [][NextGenerate]_vars

\* The event loop runs every timer that is due and every continuation of a
\* settled promise, and a fetch settles: with a response or with an error.
SpecGenerateFair == SpecGenerate /\ WF_vars(NextGenerate)

\* The error that preceded a further request: the 429 or a thrown error
\* that is not classed as non-retryable.
RetryableError(lastError) ==
    /\ lastError.kind = "string"
    /\ \/ Includes(lastError.val, Chars("Rate limited."))
       \/ ~NonRetryable(lastError.val)

\* C23: every call to generate ends by resolving to a GeminiResponse, never
\* rejecting, after at most 2 requests, exactly 1 when skipRetry is true; a
\* second request is made only after a 429 or a thrown error that is not
\* classed as non-retryable.
C23_GenerateResolves ==
    /\ [](pc = "fetch" => <>(pc = "settled"))
    /\ [](pc = "settled" =>
            /\ gResult.kind = "resolved"
            /\ gRequests \in 1..2
            /\ gSkipRetry => gRequests = 1)
    /\ [][gRequests' > gRequests /\ gRequests >= 1 => RetryableError(gLastError)]_vars

\* A call with skipRetry false has resolved after a second request.
C23_Witness ==
    /\ pc = "settled"
    /\ ~gSkipRetry
    /\ gRequests = 2
    /\ gResult.kind = "resolved"

\* A call with skipRetry true has resolved after a 429.
C23_WitnessSkipRetry ==
    /\ pc = "settled"
    /\ gSkipRetry
    /\ gRequests = 1
    /\ gResult.kind = "resolved"
    /\ Includes(gResult.val.error, Chars("429"))

----------------------------------------------------------------------------
(* The chat handler: POST /api/chat (src/unnamed/part_002) with            *)
(* findCustomAnswer (src/lib/gemini.ts) and getContentstackKnowledge       *)
(* (src/unnamed/part_005).                                                 *)

NOT_FOUND_PHRASES ==
    <<Chars("not available in the"), Chars("not mentioned in the"),
      Chars("not found in the"), Chars("no information about"),
      Chars("does not contain"), Chars("not covered in"), Chars("doesn't contain"),
      Chars("does not include"), Chars("this information is not available"),
      Chars("information is not available"), Chars("not present in the report"),
      Chars("not included in the report"), Chars("not specified in the"),
      Chars("cannot find"), Chars("can't find"), Chars("no data about"),
      Chars("no details about"), Chars("not addressed in"), Chars("not provided in"),
      Chars("outside the scope"), Chars("beyond the scope"), Chars("report does not"),
      Chars("report doesn't"), Chars("not in the health check"), Chars("unable to find"),
      Chars("no mention of"), Chars("is not covered"), Chars("is not available"),
      Chars("was not found"), Chars("could not find"), Chars("couldn't find"),
      Chars("does not have information"), Chars("doesn't have information"),
      Chars("lacks information"), Chars("missing from the report"),
      Chars("absent from the report")>>

MIN_KEYWORD_MATCHES == 3
ENABLE_SEMANTIC == FALSE
FALLBACK_TO_KEYWORDS == TRUE

\* The keywords of CUSTOM_QA_LIST, entry by entry.
CUSTOM_QA_LIST ==
    <<{Chars("pricing"), Chars("cost"), Chars("price"), Chars("how much")},
      {Chars("support"), Chars("help"), Chars("contact"), Chars("ticket")},
      {Chars("launch checklist"), Chars("go live"), Chars("production ready"),
       Chars("deployment checklist")},
      {Chars("healthcheck"), Chars("app"), Chars("health check")},
      {Chars("name"), Chars("tejas"), Chars("role"), Chars("designation")}>>

\* qa.answer of entry n of CUSTOM_QA_LIST: the text itself is not read by
\* the handler.
CustomAnswer(n) == Chars("CUSTOM_QA_LIST[") \o <<StatusDigits[n]>> \o Chars("].answer")

\* The 1-based index of the first entry with MIN_KEYWORD_MATCHES keywords in
\* the query, 0 when there is none.
findKeywordMatch(query) ==
    LET queryLower == ToLowerCase(query)
        matching == {n \in 1..Len(CUSTOM_QA_LIST) :
                        Cardinality({keyword \in CUSTOM_QA_LIST[n] :
                                        Includes(queryLower, ToLowerCase(keyword))})
                            >= MIN_KEYWORD_MATCHES}
    IN  IF matching = {} THEN 0 ELSE SetMin(matching)

\* customResult.qa: semantic matching is switched off, so the keyword match
\* decides.
findCustomAnswer(query) ==
    IF FALLBACK_TO_KEYWORDS /\ findKeywordMatch(query) > 0
    THEN [kind |-> "qa", val |-> findKeywordMatch(query)]
    ELSE JsNull

\* The 0-based index of the first "SUGGESTED_QUESTIONS:" of the text, in
\* any case of letters, -1 when there is none.
SuggestionsIndex(responseText) ==
    LET at == {i \in 1..Len(responseText) :
                  LitAt(responseText, i, Chars("suggested_questions:"), TRUE)}
    IN  IF at = {} THEN -1 ELSE SetMin(at) - 1

\* The answer of parseResponseWithSuggestions: the text before the
\* suggestions, trimmed; the whole text when there are none.
ParsedAnswer(responseText) ==
    IF SuggestionsIndex(responseText) < 0 THEN responseText
    ELSE Trim(Substring(responseText, 0, SuggestionsIndex(responseText)))

\* NOT_FOUND_PHRASES.find(phrase => answerLower.includes(phrase)) finds none.
AlwaysGrounded(answer) == TRUE
AnswerGrounded(answer) ==
    \A n \in 1..Len(NOT_FOUND_PHRASES) :
        ~Includes(ToLowerCase(answer), NOT_FOUND_PHRASES[n])

\* The answer of getContentstackKnowledge for the GeminiResponse it gets.
KnowledgeAnswer(reply) ==
    IF ~reply.val.success
    THEN Chars("Sorry, I could not get an answer from Gemini. Please try again.")
    ELSE ParsedAnswer(reply.val.text)

\* NextResponse.json(...) of the chat handler; source "undefined" when the
\* body has none.
ChatResponse(status, success, answer, isGrounded, source) ==
    [status |-> status, success |-> success, answer |-> answer,
     isGrounded |-> isGrounded, source |-> source]

ChatFailure(status, answer) ==
    [kind |-> "response", val |-> ChatResponse(status, FALSE, answer, FALSE, "undefined")]

ChatSuccess(answer, source) ==
    [kind |-> "response", val |-> ChatResponse(200, TRUE, answer, source = "report", source)]

\* The catch block of the handler.
ChatError(errorMessage) ==
    ChatFailure(500, Chars("Sorry, I encountered an error. Please try again. (")
                        \o errorMessage \o Chars(")"))

\* !query || typeof query !== 'string' || query.trim().length === 0
QueryRejected(query) == query.kind # "string" \/ Trim(query.val) = <<>>

----------------------------------------------------------------------------
(* Specification SpecChat: one POST to /api/chat, step by step between the *)
(* awaited Gemini calls, against stores of up to two reports.              *)

ChatSessionIds == {"", "s1", "s2", "s3"}
ChatQueries ==
    {Undefined, Num(5), JsString(Chars("   ")),
     JsString(Chars("how much is the pricing cost")),
     JsString(Chars("HELP: contact support")),
     JsString(Chars("What is the price?")),
     JsString(Chars("Is SSO enabled?")),
     JsString(Chars("Which app has a ticket?")),
     JsString(Chars("List the webhooks"))}
ChatRequests ==
    [jsonError : {FALSE}, sessionId : ChatSessionIds, query : ChatQueries]
        \cup [jsonError : {TRUE}, sessionId : {""}, query : {Undefined}]

ChatStores ==
    {<<>>, <<StoredReport("s1", StoreFilename, StoreText)>>,
     <<StoredReport("s2", StoreFilename, StoreText)>>,
     <<StoredReport("s1", StoreFilename, StoreText),
       StoredReport("s2", StoreFilename, StoreText)>>}

ReportReplies ==
    {GeminiResponse(Chars("Three issues were found."), TRUE, <<>>),
     GeminiResponse(Chars("This information is NOT available in the health check report."),
                    TRUE, <<>>),
     GeminiResponse(Chars("Fine.\n\nSUGGESTED_QUESTIONS:\n- What was not found in the report?"),
                    TRUE, <<>>),
     GeminiResponse(Chars("I Couldn't Find it.\nsuggested_questions:\n- More?"), TRUE, <<>>),
     GeminiResponse(<<>>, FALSE, Chars("Empty response from Gemini")),
     GeminiResponse(<<>>, FALSE, Chars("Gemini API error: 500 - Unknown error"))}

KnowledgeReplies ==
    {GeminiResponse(Chars("**Gemini AI:** Use the CDN.\n\nSUGGESTED_QUESTIONS:\n- How?"),
                    TRUE, <<>>),
     GeminiResponse(Chars("**Gemini AI:** That is not covered in the docs."), TRUE, <<>>),
     GeminiResponse(<<>>, FALSE, Chars("fetch failed"))}

InitChat ==
    /\ PageIdle
    /\ SummaryIdle
    /\ ThreadIdle
    /\ pc = "chat"
    /\ reports \in ChatStores
    /\ sReturn = Undefined
    /\ sDeletes = 0
    /\ ChatIdle
    /\ GenerateIdle
    /\ NormIdle
    /\ ChunkIdle
    /\ SplitIdle
    /\ MetricsIdle
    /\ IdentifyIdle
    /\ UploadIdle

\* The response to a request that needs no answer from Gemini, Undefined when
\* the report prompt is sent.
FirstResponse(request, custom, entries) ==
    IF request.jsonError THEN ChatError(Chars("Unexpected end of JSON input"))
    ELSE IF request.sessionId = ""
    THEN ChatFailure(400, Chars("Please upload a health check report first."))
    ELSE IF QueryRejected(request.query)
    THEN ChatFailure(400, Chars("Please ask a question about the health check report."))
    ELSE IF custom # JsNull THEN ChatSuccess(CustomAnswer(custom.val), "custom")
    ELSE IF ~MapHas(entries, request.sessionId)
    THEN ChatFailure(404, Chars("Session expired. Please upload the health check report again."))
    ELSE Undefined

\* The sources consulted up to the first response or the report prompt.
FirstConsulted(request, custom) ==
    IF request.jsonError \/ request.sessionId = "" \/ QueryRejected(request.query)
    THEN <<>>
    ELSE IF custom # JsNull THEN <<"custom">>
    ELSE <<"custom", "report">>

\* POST up to its response or to the await of the report answer.
ChatPost ==
    /\ pc = "chat"
    /\ \E request \in ChatRequests :
           LET custom == IF request.query.kind = "string"
                         THEN findCustomAnswer(request.query.val) ELSE JsNull
           IN  /\ chRequest' = [kind |-> "request", val |-> request]
               /\ chCustom' = IF FirstConsulted(request, custom) = <<>>
                              THEN Undefined ELSE custom
               /\ chConsulted' = FirstConsulted(request, custom)
               /\ chResponse' = FirstResponse(request, custom, reports)
               /\ pc' = IF FirstResponse(request, custom, reports) = Undefined
                        THEN "chat-report" ELSE "chat-responded"
    /\ UNCHANGED <<chReply, normVars, chunkVars, splitVars, metricVars, identVars, storeVars, uploadVars, genVars, threadVars, summaryVars, pageVars>>

\* gemini.generate settles for the report prompt.
ChatReportReply ==
    /\ pc = "chat-report"
    /\ \E reply \in ReportReplies :
           /\ chReply' = reply
           /\ IF ~reply.val.success
              THEN /\ chResponse' = ChatError(reply.val.error)
                   /\ pc' = "chat-responded"
                   /\ UNCHANGED chConsulted
              ELSE IF AnswerGrounded(ParsedAnswer(reply.val.text))
              THEN /\ chResponse' = ChatSuccess(ParsedAnswer(reply.val.text), "report")
                   /\ pc' = "chat-responded"
                   /\ UNCHANGED chConsulted
              ELSE /\ chConsulted' = Append(chConsulted, "contentstack_knowledge")
                   /\ pc' = "chat-knowledge"
                   /\ UNCHANGED chResponse
    /\ UNCHANGED <<chRequest, chCustom, normVars, chunkVars, splitVars, metricVars, identVars, storeVars, uploadVars, genVars, threadVars, summaryVars, pageVars>>

\* getContentstackKnowledge settles.
ChatKnowledgeReply ==
    /\ pc = "chat-knowledge"
    /\ \E reply \in KnowledgeReplies :
           chResponse' = ChatSuccess(KnowledgeAnswer(reply), "contentstack_knowledge")
    /\ pc' = "chat-responded"
    /\ UNCHANGED <<chRequest, chCustom, chConsulted, chReply, normVars, chunkVars, splitVars, metricVars, identVars, storeVars, uploadVars, genVars, threadVars, summaryVars, pageVars>>

NextChat == ChatPost \/ ChatReportReply \/ ChatKnowledgeReply

SpecChat == InitChat /\ [][NextChat]_vars

\* The request passed the validation of the handler.
ChatValidated ==
    /\ ~chRequest.val.jsonError
    /\ chRequest.val.sessionId # ""
    /\ chRequest.val.query.kind = "string"
    /\ Trim(chRequest.val.query.val) # <<>>

\* The answer holds one of the not-found phrases, in any case of letters.
HoldsNotFoundPhrase(answer) ==
    \E n \in 1..Len(NOT_FOUND_PHRASES) : Contains(ToLowerCase(answer), NOT_FOUND_PHRASES[n])

\* The report answer: the reply to the report prompt up to its suggestions.
ReportAnswer == ParsedAnswer(chReply.val.text)

C24_WitnessCustom ==
    /\ pc = "chat-responded"
    /\ chCustom # JsNull /\ chCustom # Undefined
    /\ chResponse.val.source = "custom"

\* A report answer was returned whose suggestions hold a not-found phrase.
C24_WitnessReport ==
    /\ pc = "chat-responded"
    /\ chReply # Undefined
    /\ chResponse.val.source = "report"
    /\ HoldsNotFoundPhrase(chReply.val.text)

----------------------------------------------------------------------------
(* The chat history (src/unnamed/part_004): one JSON file per thread.      *)
(* JSON.stringify and JSON.parse give back every string field and drop a   *)
(* source that is undefined, which the model writes as "undefined"; the    *)
(* time stamps are left out.                                               *)

TitleLength == 50
NewConversation == Chars("New Conversation")

ChatMessage(id, role, content, source) ==
    [id |-> id, role |-> role, content |-> content, source |-> source]

ChatThread(id, sessionId, reportName, title, messages) ==
    [id |-> id, sessionId |-> sessionId, reportName |-> reportName, title |-> title,
     messages |-> messages]

\* fs.existsSync(getThreadPath(threadId))
ThreadExists(files, threadId) == \E n \in 1..Len(files) : files[n].id = threadId

\* getThread(threadId), of a thread that exists
getThread(files, threadId) ==
    files[CHOOSE n \in 1..Len(files) : files[n].id = threadId]

\* fs.writeFileSync(getThreadPath(thread.id), ...)
WriteThread(files, thread) ==
    IF ThreadExists(files, thread.id)
    THEN [n \in 1..Len(files) |-> IF files[n].id = thread.id THEN thread ELSE files[n]]
    ELSE Append(files, thread)

\* fs.unlinkSync(getThreadPath(threadId))
UnlinkThread(files, threadId) == SelectSeq(files, LAMBDA thread : thread.id # threadId)

\* generateTitle(messages)
generateTitle(messages) ==
    LET users == {n \in 1..Len(messages) : messages[n].role = "user"}
    IN  IF users = {} THEN NewConversation
        ELSE LET content == messages[SetMin(users)].content
                 title == Slice(content, 0, TitleLength)
             IN  IF Len(title) < Len(content) THEN title \o Chars("...") ELSE title

\* The thread after addMessage pushed the message.
WithMessage(thread, message) ==
    LET pushed == Append(thread.messages, message)
    IN  [thread EXCEPT !.messages = pushed,
                       !.title = IF thread.title = NewConversation
                                 THEN generateTitle(pushed) ELSE thread.title]

\* The messages after the loop of updateLastAssistantMessage.
UpdatedEveryAssistant(messages, content, source) ==
    [n \in 1..Len(messages) |->
        IF messages[n].role = "assistant"
        THEN [messages[n] EXCEPT !.content = content] ELSE messages[n]]
UpdatedMessages(messages, content, source) ==
    LET assistants == {n \in 1..Len(messages) : messages[n].role = "assistant"}
    IN  IF assistants = {} THEN messages
        ELSE [messages EXCEPT
                 ![SetMax(assistants)] =
                     [@ EXCEPT !.content = content,
                               !.source = IF source # "undefined" THEN source ELSE @]]

----------------------------------------------------------------------------
(* Specification SpecThreads: createThread, addMessage,                    *)
(* updateLastAssistantMessage and deleteThread on two threads of at most   *)
(* MaxMessages messages.                                                   *)

MaxMessages == 2
ThreadNames == <<"thread_1", "thread_2">>
ThreadIds == {ThreadNames[n] : n \in 1..Len(ThreadNames)}
MessageNames == <<"msg_1", "msg_2", "msg_3", "msg_4">>
MessageRoles == {"user", "assistant"}
MessageSources == {"undefined", "report"}
LongContent == [n \in 1..(TitleLength + 1) |-> "x"]
MessageContents == {Chars("hi"), LongContent}
\* The messages that addMessage can store as message n of a thread: the id,
\* of the clock and a random number, is a new one.
NewMessages(n) ==
    {ChatMessage(MessageNames[n], "user", content, "undefined") :
        content \in MessageContents}
        \cup {ChatMessage(MessageNames[n], "assistant", Chars("hi"), "undefined")}
UpdateContents == {Chars("ok")}

ReturnedThread(thread) == [kind |-> "thread", val |-> thread]

InitThreads ==
    /\ PageIdle
    /\ SummaryIdle
    /\ pc = "threads"
    /\ ThreadIdle
    /\ ChatIdle
    /\ GenerateIdle
    /\ NormIdle
    /\ ChunkIdle
    /\ SplitIdle
    /\ MetricsIdle
    /\ IdentifyIdle
    /\ StoreIdle
    /\ UploadIdle

\* createThread: the id, of the clock and a random number, is a new one.
CreateThread ==
    /\ pc \in {"threads", "created", "added", "updated", "deleted"}
    /\ threadsCreated < Len(ThreadNames)
    /\ LET thread == ChatThread(ThreadNames[threadsCreated + 1], "s1", Chars("report.pdf"),
                                NewConversation, <<>>)
       IN  /\ threadFiles' = WriteThread(threadFiles, thread)
           /\ threadReturn' = ReturnedThread(thread)
    /\ threadsCreated' = threadsCreated + 1
    /\ pc' = "created"
    /\ UNCHANGED <<normVars, chunkVars, splitVars, metricVars, identVars, storeVars, uploadVars, genVars, chatVars, summaryVars, pageVars>>

AddMessage(threadId) ==
    /\ pc \in {"threads", "created", "added", "updated", "deleted"}
    /\ IF ~ThreadExists(threadFiles, threadId)
       THEN /\ threadReturn' = JsNull
            /\ UNCHANGED threadFiles
       ELSE /\ Len(getThread(threadFiles, threadId).messages) < MaxMessages
            /\ \E message \in NewMessages(Len(getThread(threadFiles, threadId).messages) + 1) :
                   LET thread == WithMessage(getThread(threadFiles, threadId), message)
                   IN  /\ threadFiles' = WriteThread(threadFiles, thread)
                       /\ threadReturn' = ReturnedThread(thread)
    /\ pc' = "added"
    /\ UNCHANGED <<threadsCreated, normVars, chunkVars, splitVars, metricVars, identVars, storeVars, uploadVars, genVars, chatVars, summaryVars, pageVars>>

UpdateLastAssistantMessage(threadId) ==
    /\ pc \in {"threads", "created", "added", "updated", "deleted"}
    /\ IF ~ThreadExists(threadFiles, threadId)
       THEN /\ threadReturn' = JsNull
            /\ UNCHANGED threadFiles
       ELSE \E content \in UpdateContents, source \in MessageSources :
                LET old == getThread(threadFiles, threadId)
                    thread == [old EXCEPT
                                  !.messages = UpdatedMessages(old.messages, content, source)]
                IN  /\ threadFiles' = WriteThread(threadFiles, thread)
                    /\ threadReturn' = ReturnedThread(thread)
    /\ pc' = "updated"
    /\ UNCHANGED <<threadsCreated, normVars, chunkVars, splitVars, metricVars, identVars, storeVars, uploadVars, genVars, chatVars, summaryVars, pageVars>>

DeleteThread(threadId) ==
    /\ pc \in {"threads", "created", "added", "updated", "deleted"}
    /\ threadFiles' = UnlinkThread(threadFiles, threadId)
    /\ threadReturn' = [kind |-> "boolean", val |-> ThreadExists(threadFiles, threadId)]
    /\ pc' = "deleted"
    /\ UNCHANGED <<threadsCreated, normVars, chunkVars, splitVars, metricVars, identVars, storeVars, uploadVars, genVars, chatVars, summaryVars, pageVars>>

NextThreads ==
    \/ CreateThread
    \/ \E threadId \in ThreadIds :
           \/ AddMessage(threadId)
           \/ UpdateLastAssistantMessage(threadId)
           \/ DeleteThread(threadId)

SpecThreads == InitThreads /\ [][NextThreads]_vars

\* The threads that a step of createThread, addMessage or
\* updateLastAssistantMessage leaves in place.
KeptThreads ==
    {threadId \in ThreadIds :
        ThreadExists(threadFiles, threadId) /\ ThreadExists(threadFiles', threadId)}

\* Every message of the thread is, after the step, at its position with its
\* id and role, and messages were added at the end only.
KeepsIdRolePosition(threadId) ==
    LET old == getThread(threadFiles, threadId).messages
        new == getThread(threadFiles', threadId).messages
    IN  /\ Len(new) >= Len(old)
        /\ \A n \in 1..Len(old) : new[n].id = old[n].id /\ new[n].role = old[n].role

\* The positions whose content the step changed.
ContentChanged(threadId) ==
    LET old == getThread(threadFiles, threadId).messages
        new == getThread(threadFiles', threadId).messages
    IN  {n \in 1..Min(Len(old), Len(new)) : new[n].content # old[n].content}

\* The position of the last assistant message of the thread before the step.
LastAssistant(threadId) ==
    LET old == getThread(threadFiles, threadId).messages
    IN  {n \in 1..Len(old) :
            /\ old[n].role = "assistant"
            /\ \A k \in (n + 1)..Len(old) : old[k].role # "assistant"}

\* C25: the thread log is append-only: on a thread that is not deleted,
\* every message once stored keeps its id, role, content and position
\* under createThread, addMessage and updateLastAssistantMessage, which
\* only add messages at the end.
C25_AppendOnly ==
    [][\A threadId \in KeptThreads :
           KeepsIdRolePosition(threadId) /\ ContentChanged(threadId) = {}]_vars

\* C25 as amended: every message once stored keeps its id, role and
\* position, and messages are only added at the end; a message keeps its
\* content too, unless it is the last assistant message of the thread, whose
\* content updateLastAssistantMessage overwrites.
C25_AppendOnlyButLastAssistant ==
    [][\A threadId \in KeptThreads :
           /\ KeepsIdRolePosition(threadId)
           /\ ContentChanged(threadId) \subseteq LastAssistant(threadId)
           /\ ContentChanged(threadId) # {} => pc' = "updated"]_vars

\* updateLastAssistantMessage has overwritten the content of the first of
\* two messages, the only assistant message of the thread.
C25_Witness ==
    /\ pc = "updated"
    /\ threadReturn.kind = "thread"
    /\ Len(threadReturn.val.messages) = 2
    /\ threadReturn.val.messages[1].role = "assistant"
    /\ threadReturn.val.messages[1].content = Chars("ok")
    /\ threadReturn.val.messages[2].role = "user"

----------------------------------------------------------------------------
(* parseGeminiSummary (src/app/api/summarize/route.ts): the three lists.   *)
(* The summary string, which no list depends on, is left out.              *)

DefaultFindings == 30
DefaultRisks == 30
DefaultRecommendations == 20
MinBulletLength == 10
MinSentenceLength == 30
MaxSentenceLength == 500
MinItemLength == 5

\* text.replace(/\*\*/g, '')
RECURSIVE RemoveStars(_)
RemoveStars(text) ==
    IF Len(text) < 2 THEN text
    ELSE IF text[1] = "*" /\ text[2] = "*" THEN RemoveStars(SubSeq(text, 3, Len(text)))
    ELSE <<text[1]>> \o RemoveStars(Tail(text))

\* .replace(/\s+/g, ' ')
CollapseWhiteSpace(text) ==
    Concat([n \in 1..Len(text) |->
               IF text[n] \notin WhiteSpace THEN <<text[n]>>
               ELSE IF n > 1 /\ text[n - 1] \in WhiteSpace THEN <<>>
               ELSE <<" ">>])

cleanText(text) == Trim(CollapseWhiteSpace(RemoveStars(text)))

\* The bullet characters of the first pattern; "<BULLET>" stands for each of
\* the four that are not ASCII.
BulletChars == {"-", "*", "<BULLET>"}

\* match[1] of the three patterns tried on a trimmed line, <<>> when none
\* matches: a bullet character, digits with "." or ")", or one letter with
\* "." or ")", then white space, then at least one character.
BulletText(trimmed) ==
    LET digits == RunLen(trimmed, 1, DigitChars)
        lettered == /\ Len(trimmed) >= 2
                    /\ ToLowerChar(trimmed[1]) \in LowerLetters
                    /\ trimmed[2] \in {".", ")"}
    IN  IF trimmed[1] \in BulletChars /\ Len(trimmed) > 1
        THEN TrimLeft(Tail(trimmed))
        ELSE IF digits > 0 /\ Len(trimmed) > digits + 1 /\ trimmed[digits + 1] \in {".", ")"}
        THEN TrimLeft(SubSeq(trimmed, digits + 2, Len(trimmed)))
        ELSE IF lettered /\ Len(trimmed) > 2
        THEN TrimLeft(SubSeq(trimmed, 3, Len(trimmed)))
        ELSE <<>>

\* The item that extractBulletPoints pushes for a line, <<>> when it pushes
\* none.
BulletItem(line) ==
    LET trimmed == Trim(line)
    IN  IF trimmed = <<>> THEN <<>>
        ELSE IF BulletText(trimmed) # <<>>
        THEN IF Len(cleanText(BulletText(trimmed))) > MinBulletLength
             THEN cleanText(BulletText(trimmed)) ELSE <<>>
        ELSE IF Len(trimmed) > MinSentenceLength /\ Len(trimmed) < MaxSentenceLength
                  /\ Len(cleanText(trimmed)) > MinBulletLength
        THEN cleanText(trimmed)
        ELSE <<>>

extractBulletPoints(text) ==
    SelectSeq([n \in 1..Len(SplitLines(text)) |-> BulletItem(SplitLines(text)[n])],
              LAMBDA item : item # <<>>)

\* The 1-based positions of the text where the marker stands, in any case
\* of letters; the marker is written in lower case.
MarkerAt(text, marker) == {n \in 1..Len(text) : LitAt(text, n, marker, TRUE)}

\* match[1] of /header\s*([\s\S]*?)(?=stop1|stop2|$)/i: the text after the
\* first header up to the first stop marker behind it, <<>> with no header.
SectionText(text, header, stops) ==
    IF MarkerAt(text, header) = {} THEN <<>>
    ELSE LET from == SetMin(MarkerAt(text, header)) + Len(header)
             rest == TrimLeft(SubSeq(text, from, Len(text)))
             ends == UNION {MarkerAt(rest, stop) : stop \in stops}
         IN  IF ends = {} THEN rest ELSE SubSeq(rest, 1, SetMin(ends) - 1)

KeyFindingsHeader == Chars("**key_findings**")
RiskAreasHeader == Chars("**risk_areas**")
RecommendationsHeader == Chars("**recommendations**")
RiskAreasStop == Chars("**risk_areas")
RecommendationsStop == Chars("**recommendations")

\* [...new Set(items)].filter(item => item.length > 5)
RECURSIVE Deduplicated(_)
Deduplicated(items) ==
    IF items = <<>> THEN <<>>
    ELSE LET front == Deduplicated(SubSeq(items, 1, Len(items) - 1))
             last == items[Len(items)]
         IN  IF \E n \in 1..Len(front) : front[n] = last THEN front
             ELSE Append(front, last)

Cleaned(items) == SelectSeq(Deduplicated(items), LAMBDA item : Len(item) > MinItemLength)

\* exactCount ? cleaned.slice(0, exactCount) : cleaned.slice(0, limit)
ExactOrLimit(cleaned, exactCount, limit) ==
    IF Truthy(exactCount) THEN Slice(cleaned, 0, exactCount.val) ELSE Slice(cleaned, 0, limit)

parseGeminiSummary(text, exactStrengthsCount, exactOpportunitiesCount, exactActionsCount) ==
    [keyFindings |->
         ExactOrLimit(Cleaned(extractBulletPoints(
                          SectionText(text, KeyFindingsHeader,
                                      {RiskAreasStop, RecommendationsStop}))),
                      exactStrengthsCount, DefaultFindings),
     riskAreas |->
         ExactOrLimit(Cleaned(extractBulletPoints(
                          SectionText(text, RiskAreasHeader, {RecommendationsStop}))),
                      exactOpportunitiesCount, DefaultRisks),
     recommendations |->
         ExactOrLimit(Cleaned(extractBulletPoints(
                          SectionText(text, RecommendationsHeader, {}))),
                      exactActionsCount, DefaultRecommendations)]

----------------------------------------------------------------------------
(* Specification SpecSummary: parseGeminiSummary on replies with few and   *)
(* with many items, with each count passed or not.                         *)

\* Lines "- <label> 01", "- <label> 02", ... up to n.
NumberedItems(label, n) ==
    JoinLines([k \in 1..n |->
                  Chars("- ") \o label \o <<" ", StatusDigits[(k \div 10) + 1],
                                            StatusDigits[(k % 10) + 1]>>])

LongReply ==
    Chars("**KEY_FINDINGS**\n") \o NumberedItems(Chars("Strength number"), DefaultFindings + 1)
        \o Chars("\n\n**RISK_AREAS**\n")
        \o NumberedItems(Chars("Opportunity number"), DefaultRisks + 1)
        \o Chars("\n\n**RECOMMENDATIONS**\n")
        \o NumberedItems(Chars("Action number"), DefaultRecommendations + 1)

SummaryReplies ==
    {LongReply,
     Chars("**KEY_FINDINGS**\n- Strong content model\n- Strong content model\n* **Roles** are  configured\n- ok\n\n**RISK_AREAS**\n1. Unused content types\n2) Large assets found\n\n**RECOMMENDATIONS**\na) Review the webhooks\n- Enable two factor auth\nThis line has no bullet but it is long enough."),
     Chars("**key_findings**\n- Locales are configured\n**recommendations**\n- Rotate the tokens"),
     Chars("**RISK_AREAS** - Stale entries found\n- Workflows are unused\n- Branches are unused"),
     Chars("The report looks fine.")}

SummaryCounts == {Undefined, Num(0), Num(1), Num(2)}

InitSummary ==
    /\ PageIdle
    /\ pc = "reply"
    /\ pText \in SummaryReplies
    /\ pCounts \in [strengths : SummaryCounts, opportunities : SummaryCounts,
                    actions : SummaryCounts]
    /\ pParsed = Undefined
    /\ ThreadIdle
    /\ ChatIdle
    /\ GenerateIdle
    /\ NormIdle
    /\ ChunkIdle
    /\ SplitIdle
    /\ MetricsIdle
    /\ IdentifyIdle
    /\ StoreIdle
    /\ UploadIdle

ParseSummary ==
    /\ pc = "reply"
    /\ pParsed' = [kind |-> "parsed",
                   val |-> parseGeminiSummary(pText, pCounts.strengths,
                                              pCounts.opportunities, pCounts.actions)]
    /\ pc' = "parsed"
    /\ UNCHANGED <<pText, pCounts, normVars, chunkVars, splitVars, metricVars, identVars, storeVars, uploadVars, genVars, chatVars, threadVars, pageVars>>

NextSummary == ParseSummary

SpecSummary == InitSummary /\ [][NextSummary]_vars

\* The most items a list can have: the count when it is passed as a number
\* >= 0, the limit of the list when it is not passed.
AtMost(items, exactCount, limit) ==
    /\ (exactCount.kind = "number" /\ exactCount.val >= 0) => Len(items) <= exactCount.val
    /\ exactCount = Undefined => Len(items) <= limit

\* C26: parseGeminiSummary returns at most exactStrengthsCount key
\* findings, exactOpportunitiesCount risk areas and exactActionsCount
\* recommendations when the count is passed as a number >= 0, 0 included,
\* and at most 30, 30 and 20 when the count is not passed.
C26_AtMostExactCounts ==
    pc = "parsed" =>
        /\ AtMost(pParsed.val.keyFindings, pCounts.strengths, DefaultFindings)
        /\ AtMost(pParsed.val.riskAreas, pCounts.opportunities, DefaultRisks)
        /\ AtMost(pParsed.val.recommendations, pCounts.actions, DefaultRecommendations)

----------------------------------------------------------------------------
(* The page (src/app/layout.tsx): handleUploadSuccess, handleUploadError   *)
(* and resetSession, with the /api/summarize fetches in flight.            *)

\* The summary that /api/summarize returns for the report of a session.
SummaryOf(session) == [kind |-> "summary", val |-> session]

\* The metrics that the upload extracted from the report of a session.
MetricsOf(session) == [kind |-> "metrics", val |-> session]

----------------------------------------------------------------------------
(* Specification SpecPage: up to MaxUploads uploads, "New Report" clicks   *)
(* and summarize responses, in every order the page allows.                *)

MaxUploads == 3
PageSessions == <<"p1", "p2", "p3", "p4">>
PageSessionIds == {PageSessions[n] : n \in 1..Len(PageSessions)}
SummarizeFailures == {"Please upload a report first.", "Failed to generate summary"}
UploadFailures == {"File too large"}

InitPage ==
    /\ pc = "page-open"
    /\ PageIdle
    /\ SummaryIdle
    /\ ThreadIdle
    /\ ChatIdle
    /\ GenerateIdle
    /\ NormIdle
    /\ ChunkIdle
    /\ SplitIdle
    /\ MetricsIdle
    /\ IdentifyIdle
    /\ StoreIdle
    /\ UploadIdle

\* handleUploadSuccess up to its fetch; the upload widget is shown while no
\* session is set, and the session id is a new one.
HandleUploadSuccess ==
    /\ pageSessionId = ""
    /\ uploads < MaxUploads
    /\ LET newSessionId == PageSessions[uploads + 1]
       IN  /\ pageSessionId' = newSessionId
           /\ pageFilename' = "report.pdf"
           /\ \E extracted \in {JsNull, MetricsOf(newSessionId)} : pageMetrics' = extracted
           /\ summarizing' = summarizing \cup {newSessionId}
    /\ uploadError' = ""
    /\ summaryError' = ""
    /\ summaryData' = JsNull
    /\ summaryLoading' = TRUE
    /\ uploads' = uploads + 1
    /\ UNCHANGED <<pc, normVars, chunkVars, splitVars, metricVars, identVars, storeVars, uploadVars, genVars, chatVars, threadVars, summaryVars>>

\* The fetch of handleUploadSuccess for the session settles with a summary:
\* the rest of the try block, and the finally block.
SummarizeSucceeds(session) ==
    /\ session \in summarizing
    /\ summaryData' = SummaryOf(session)
    /\ summaryLoading' = FALSE
    /\ summarizing' = summarizing \ {session}
    /\ UNCHANGED <<pc, pageSessionId, pageFilename, summaryError, uploadError, pageMetrics, uploads, normVars, chunkVars, splitVars, metricVars, identVars, storeVars, uploadVars, genVars, chatVars, threadVars, summaryVars>>

\* The fetch settles with a failure or throws: the catch block, and the
\* finally block.
SummarizeFails(session) ==
    /\ session \in summarizing
    /\ summaryError' \in SummarizeFailures
    /\ summaryLoading' = FALSE
    /\ summarizing' = summarizing \ {session}
    /\ UNCHANGED <<pc, pageSessionId, pageFilename, summaryData, uploadError, pageMetrics, uploads, normVars, chunkVars, splitVars, metricVars, identVars, storeVars, uploadVars, genVars, chatVars, threadVars, summaryVars>>

\* handleUploadError, of the upload widget.
HandleUploadError ==
    /\ pageSessionId = ""
    /\ uploadError' \in UploadFailures
    /\ pageSessionId' = ""
    /\ pageFilename' = ""
    /\ summaryData' = JsNull
    /\ pageMetrics' = JsNull
    /\ UNCHANGED <<pc, summaryLoading, summaryError, summarizing, uploads, normVars, chunkVars, splitVars, metricVars, identVars, storeVars, uploadVars, genVars, chatVars, threadVars, summaryVars>>

\* resetSession: the "New Report" button, shown while a session is set.
ResetSession ==
    /\ pageSessionId # ""
    /\ pageSessionId' = ""
    /\ pageFilename' = ""
    /\ summaryData' = JsNull
    /\ summaryError' = ""
    /\ uploadError' = ""
    /\ pageMetrics' = JsNull
    /\ UNCHANGED <<pc, summaryLoading, summarizing, uploads, normVars, chunkVars, splitVars, metricVars, identVars, storeVars, uploadVars, genVars, chatVars, threadVars, summaryVars>>

NextPage ==
    \/ HandleUploadSuccess
    \/ HandleUploadError
    \/ ResetSession
    \/ \E session \in PageSessionIds : SummarizeSucceeds(session) \/ SummarizeFails(session)

SpecPage == InitPage /\ [][NextPage]_vars

\* C30: summaryData, summaryError and summaryLoading reflect the session
\* uploaded last: a summarize response for an earlier session changes none
\* of them after a reset or after a newer upload has succeeded.
C30_StaleResponseIgnored ==
    [][\A session \in PageSessionIds :
           ((SummarizeSucceeds(session) \/ SummarizeFails(session))
                /\ session # pageSessionId)
               => UNCHANGED <<summaryData, summaryError, summaryLoading>>]_vars

====
